---- MODULE Spec2Model ----
(***************************************************************************)
(* A model of the CLOB client's session state machine (src/clob/client.rs), *)
(* of its rate limiter (src/rate_limit.rs), of the request helpers of the   *)
(* RFQ client (src/rfq/client.rs) and of the admission of the Data API      *)
(* client's operations (src/data/client.rs).                                *)
(*                                                                         *)
(* The specifications share the module's variables:                        *)
(*   Spec        the typestate session: Client handles and their clones,   *)
(*               authenticate / deauthenticate / promote_to_builder, the   *)
(*               keep-alive task and its DroppingCancellationToken;        *)
(*   SpecElevate the session without the heartbeats feature, authenticate  *)
(*               drawn over every builder and every request outcome;       *)
(*   SpecKeepAlive  start_heartbeats / stop_heartbeats over the clones of  *)
(*               one authenticated session;                                *)
(*   SpecBeat    the keep-alive loop of one Client and the heartbeat ids   *)
(*               its pings carry;                                          *)
(*   SpecCache   concurrent read-through lookups of the per-market caches; *)
(*   SpecFrame   the session with its keep-alive, its order parameters and *)
(*               filled caches across deauthenticate / promote_to_builder; *)
(*   SpecSign    Client::sign with its neg_risk lookup;                    *)
(*   SpecIdentity  one Client that pings, signs and sends authenticated    *)
(*               requests between elevation and demotion;                  *)
(*   SpecRL      RateLimiters::check_spec over governor token buckets;     *)
(*   SpecApi, SpecApiFair  check_spec and check_api_limit on shared        *)
(*               buckets, without and with fairness;                       *)
(*   SpecShared  the call sites of one API on its API-level bucket;        *)
(*   SpecData    the Data API operations: their checks and their request;  *)
(*   SpecTiming  a sequence of check! calls against a clock;               *)
(*   SpecStream  Client::stream_data over the pages of an endpoint;        *)
(*   SpecHttp    the operations that execute a request themselves;         *)
(*   SpecBuilder order builders, which own a clone of the Client, across   *)
(*               deauthenticate / promote_to_builder;                      *)
(*   SpecStop    every way of stopping the keep-alive, under the fairness  *)
(*               of the runtime.                                           *)
(* Each specification leaves the variables of the others unchanged.        *)
(***************************************************************************)
EXTENDS Integers, Sequences, FiniteSets, TLC

VARIABLES
    heartbeats,     \* cfg(feature = "heartbeats") of this build
    inner,          \* the live ClientInner<S> (the Arc's pointee)
    handles,        \* user-held Client values: clones of the Arc and of the token
    tasks,          \* keep-alive tasks spawned by start_heartbeats
    last,           \* outcome of the latest user operation (observation only)
    caches,         \* tick_sizes, neg_risk, fee_rate_bps: the three DashMaps
    lookups,        \* the tick_size / neg_risk / fee_rate_bps calls in progress
    limiters,       \* RateLimiters.limiters: the buckets created so far, by name
    global,         \* RateLimiters.global: the process-wide bucket, if configured
    admissions,     \* the check_spec calls in progress
    clock,          \* a test's Instant::now() readings around its check! calls
    stream,         \* the Stream returned by stream_data and its consumer's view
    http            \* the latest request an operation executed, with its outcome,
                    \* or the Data API operation in progress

sessionVars == <<heartbeats, inner, handles, tasks, last>>
cacheVars == <<caches, lookups>>
rlVars == <<limiters, global, admissions, clock>>
httpVars == <<stream, http>>
vars == <<sessionVars, cacheVars, rlVars, httpVars>>

----------------------------------------------------------------------------
(* Bounds of the model. *)

MaxHandles == 2
MaxTasks == 2

Handles == 1..MaxHandles
Tasks == 1..MaxTasks

----------------------------------------------------------------------------
(* Values. *)

None == "None"

\* Address::ZERO and the other addresses of the model.
ZERO == "0x0"
Signers == {"S1"}
Funders == {None, ZERO, "F1"}

\* Signer::chain_id(): absent, one of the two supported chains, or another.
ChainIds == {None, "POLYGON", "AMOY", "OTHER"}

SignatureTypes == {"Eoa", "Proxy", "GnosisSafe"}

\* generate_seed is the default salt generator.
SaltGenerators == {None, "custom"}

\* Outcome of one credential request: the request is answered 2xx, the L1
\* headers cannot be built (nothing is sent), or the answer is not 2xx.
Outcomes == {"ok", "header_error", "status_error"}

----------------------------------------------------------------------------
(* Wallet derivation (crate::derive_proxy_wallet, crate::derive_safe_wallet):*)
(* a deterministic function of (owner address, chain id), or None where the *)
(* chain has no factory for that wallet kind.                               *)

derive_proxy_wallet(address, chain_id) ==
    IF chain_id = "POLYGON" THEN "proxy:" \o address \o "@" \o chain_id ELSE None

derive_safe_wallet(address, chain_id) ==
    IF chain_id \in {"POLYGON", "AMOY"} THEN "safe:" \o address \o "@" \o chain_id
    ELSE None

----------------------------------------------------------------------------
(* ClientInner<Unauthenticated>::create_or_derive_api_key.                  *)
(* `attempts` are the calls of create_api_key / derive_api_key it makes,     *)
(* `requests` the HTTP requests that left the client, and the result is     *)
(* Ok(credentials) or the error of the attempt that produced it.            *)

Req(kind, signer, nonce) == [kind |-> kind, signer |-> signer, nonce |-> nonce]

\* create_api_key / derive_api_key: headers first, then the request.
ApiKeyRequests(kind, signer, nonce, outcome) ==
    IF outcome = "header_error" THEN <<>> ELSE <<Req(kind, signer, nonce)>>

ApiKeyResult(kind, signer, nonce, outcome) ==
    IF outcome = "ok"
    THEN [ok |-> TRUE, credentials |-> kind \o ":" \o signer \o "/" \o nonce,
          error |-> None]
    ELSE [ok |-> FALSE, credentials |-> None, error |-> kind \o ":" \o outcome]

\* A create_or_derive_api_key that keeps the first error when both fail.
create_or_derive_keeps_create_error(signer, nonce, createOutcome, deriveOutcome) ==
    LET create == ApiKeyResult("create", signer, nonce, createOutcome)
        derive == ApiKeyResult("derive", signer, nonce, deriveOutcome)
        creq   == ApiKeyRequests("create", signer, nonce, createOutcome)
    IN  IF create.ok
        THEN [result |-> create, requests |-> creq,
              attempts |-> <<Req("create", signer, nonce)>>]
        ELSE [result   |-> IF derive.ok THEN derive ELSE create,
              requests |-> creq \o ApiKeyRequests("derive", signer, nonce, deriveOutcome),
              attempts |-> <<Req("create", signer, nonce), Req("derive", signer, nonce)>>]

create_or_derive_api_key(signer, nonce, createOutcome, deriveOutcome) ==
    LET create == ApiKeyResult("create", signer, nonce, createOutcome)
        creq   == ApiKeyRequests("create", signer, nonce, createOutcome)
    IN  IF create.ok
        THEN [result |-> create, requests |-> creq,
              attempts |-> <<Req("create", signer, nonce)>>]
        ELSE [result   |-> ApiKeyResult("derive", signer, nonce, deriveOutcome),
              requests |-> creq \o ApiKeyRequests("derive", signer, nonce, deriveOutcome),
              attempts |-> <<Req("create", signer, nonce), Req("derive", signer, nonce)>>]

----------------------------------------------------------------------------
(* AuthenticationBuilder::authenticate, after Arc::into_inner has succeeded. *)

\* A chain check that rejects only an absent chain id.
ChainCheck_any_chain(chain_id) ==
    IF chain_id = None THEN "ChainIdNotSet" ELSE "ok"

\* The match on signer.chain_id().
ChainCheck(chain_id) ==
    CASE chain_id \in {"POLYGON", "AMOY"} -> "ok"
      [] chain_id = None                  -> "ChainIdNotSet"
      [] OTHER                            -> "UnsupportedChain:" \o chain_id

\* A funder match that derives the wallet whether or not a funder is given.
FunderOrDerived_always_derives(funder, signature_type, address, chain_id) ==
    CASE signature_type = "Proxy" ->
            [error |-> None, funder |-> derive_proxy_wallet(address, chain_id)]
      [] signature_type = "GnosisSafe" ->
            [error |-> None, funder |-> derive_safe_wallet(address, chain_id)]
      [] OTHER -> [error |-> None, funder |-> funder]

\* let funder = match (self.funder, self.signature_type): the funder, or the
\* validation error of a derivation the chain does not support.
FunderOrDerived(funder, signature_type, address, chain_id) ==
    CASE funder = None /\ signature_type = "Proxy" ->
            LET derived == derive_proxy_wallet(address, chain_id)
            IN  IF derived = None THEN [error |-> "ProxyDerivationUnsupported", funder |-> None]
                ELSE [error |-> None, funder |-> derived]
      [] funder = None /\ signature_type = "GnosisSafe" ->
            LET derived == derive_safe_wallet(address, chain_id)
            IN  IF derived = None THEN [error |-> "SafeDerivationUnsupported", funder |-> None]
                ELSE [error |-> None, funder |-> derived]
      [] OTHER -> [error |-> None, funder |-> funder]

\* match (funder, self.signature_type): the consistency check.
FunderCheck(funder, signature_type) ==
    CASE funder # None /\ signature_type = "Eoa" -> "FunderWithEoa"
      [] funder = ZERO /\ signature_type \in {"Proxy", "GnosisSafe"} -> "ZeroFunder"
      [] OTHER -> "ok"

\* A guard that looks at the nonce on the arm without credentials.
CredentialsAndNonce_wrong_arm(credentials, nonce) ==
    credentials = None /\ nonce # None

\* let credentials = match self.credentials: TRUE when both are set.
CredentialsAndNonce(credentials, nonce) ==
    credentials # None /\ nonce # None

Nonces == {None, "n1"}

\* What the server (or the header construction) answers to the credential
\* requests of one call, <<create, derive>>: drawn only for a call that has no
\* explicit credentials, the derive answer only when create does not succeed.
RequestOutcomes(requested) ==
    IF requested
    THEN {<<"ok", None>>} \cup (({"header_error", "status_error"}) \X Outcomes)
    ELSE {<<None, None>>}

\* The inputs of one authenticate call: the builder's fields and the signer.
AuthInputs ==
    [address : Signers, chain_id : ChainIds, credentials : {None, "explicit"},
     nonce : Nonces, funder : Funders, signature_type : SignatureTypes \cup {None},
     salt_generator : SaltGenerators]

\* An authenticate that asks for the credentials before it validates.
authenticate_requests_first(in, createOutcome, deriveOutcome) ==
    LET chain  == ChainCheck(in.chain_id)
        fd     == FunderOrDerived(in.funder, in.signature_type, in.address, in.chain_id)
        fcheck == FunderCheck(fd.funder, in.signature_type)
        cod    == create_or_derive_api_key(in.address, in.nonce, createOutcome, deriveOutcome)
        sent   == IF in.credentials = None THEN cod.requests ELSE <<>>
        tried  == IF in.credentials = None THEN cod.attempts ELSE <<>>
        fail(kind, e) == [res |-> kind, error |-> e, requests |-> sent, attempts |-> tried,
                          credentials |-> None, funder |-> None,
                          signature_type |-> None, salt_generator |-> None]
        ok(credentials) ==
            [res |-> "Ok", error |-> None, requests |-> sent, attempts |-> tried,
             credentials |-> credentials, funder |-> fd.funder,
             signature_type |-> IF in.signature_type = None THEN "Eoa"
                                ELSE in.signature_type,
             salt_generator |-> IF in.salt_generator = None THEN "generate_seed"
                                ELSE in.salt_generator]
    IN  IF in.credentials = None /\ ~cod.result.ok THEN fail("Error", cod.result.error)
        ELSE IF chain # "ok" THEN fail("Validation", chain)
        ELSE IF fd.error # None THEN fail("Validation", fd.error)
        ELSE IF fcheck # "ok" THEN fail("Validation", fcheck)
        ELSE IF CredentialsAndNonce(in.credentials, in.nonce)
             THEN fail("Validation", "CredentialsAndNonce")
        ELSE IF in.credentials # None THEN ok(in.credentials)
        ELSE ok(cod.result.credentials)

\* The body of authenticate from the chain check on: the error, or the
\* fields of the Authenticated ClientInner, with the requests sent on the way.
authenticate(in, createOutcome, deriveOutcome) ==
    LET chain  == ChainCheck(in.chain_id)
        fd     == FunderOrDerived(in.funder, in.signature_type, in.address, in.chain_id)
        fcheck == FunderCheck(fd.funder, in.signature_type)
        cod    == create_or_derive_api_key(in.address, in.nonce, createOutcome, deriveOutcome)
        fail(kind, e) == [res |-> kind, error |-> e, requests |-> <<>>, attempts |-> <<>>,
                          credentials |-> None, funder |-> None,
                          signature_type |-> None, salt_generator |-> None]
        ok(credentials, requests, attempts) ==
            [res |-> "Ok", error |-> None, requests |-> requests, attempts |-> attempts,
             credentials |-> credentials, funder |-> fd.funder,
             signature_type |-> IF in.signature_type = None THEN "Eoa"
                                ELSE in.signature_type,
             salt_generator |-> IF in.salt_generator = None THEN "generate_seed"
                                ELSE in.salt_generator]
    IN  IF chain # "ok" THEN fail("Validation", chain)
        ELSE IF fd.error # None THEN fail("Validation", fd.error)
        ELSE IF fcheck # "ok" THEN fail("Validation", fcheck)
        ELSE IF CredentialsAndNonce(in.credentials, in.nonce)
             THEN fail("Validation", "CredentialsAndNonce")
        ELSE IF in.credentials # None THEN ok(in.credentials, <<>>, <<>>)
        ELSE IF ~cod.result.ok
             THEN [fail("Error", cod.result.error) EXCEPT
                      !.requests = cod.requests, !.attempts = cod.attempts]
        ELSE ok(cod.result.credentials, cod.requests, cod.attempts)

----------------------------------------------------------------------------
(* The per-market caches of ClientInner and the lookups that read through   *)
(* them.                                                                    *)

MaxCallers == 2
Callers == 1..MaxCallers

CacheNames == {"tick_sizes", "neg_risk", "fee_rate_bps"}
TokenIds == {"t1"}

\* What the server answers for a token (a tick size, a flag, a fee rate).
Values == {"v1", "v2"}

\* One tick_size / neg_risk / fee_rate_bps call (or the position of an
\* invalidate_internal_caches call): its position, the map and
\* key it reads, whether it sent a request, whether it inserted, what it
\* returned, the callers whose request for the same key was in flight
\* together with its own, and whether its map was cleared while its
\* request was in flight.
NoLookup ==
    [pc |-> "idle", cache |-> None, token_id |-> None, fetched |-> FALSE,
     inserted |-> FALSE, result |-> None, peers |-> {}, cleared |-> FALSE]

\* The three DashMaps as Client::new creates them.
EmptyCaches == [n \in CacheNames |-> [k \in TokenIds |-> None]]

CacheIdle ==
    /\ caches = EmptyCaches
    /\ lookups = [c \in Callers |-> NoLookup]

----------------------------------------------------------------------------
(* RateLimiters: governor buckets by name. A bucket made from the quota     *)
(* count/period (parse_quota: with_period(period).allow_burst(count)) holds *)
(* at most count cells, starts full and regains one cell per period.        *)

Quota(count, period) == [count |-> count, period |-> period]

\* Option<GovernorQuota>::None (a count is a NonZeroU32).
NoQuota == Quota(0, 0)

\* The check! call sites of the model, periods in clock ticks: a MultiWindow
\* gate with an API-level quota and a Single gate without one.
Gates ==
    {[key |-> "clob_order",
      quota |-> [type |-> "MultiWindow", single |-> NoQuota,
                 burst |-> Quota(1, 1),
                 sustained |-> Quota(2, 2)],
      api_quota |-> Quota(2, 1)],
     [key |-> "data_health",
      quota |-> [type |-> "Single", single |-> Quota(2, 2),
                 burst |-> NoQuota, sustained |-> NoQuota],
      api_quota |-> NoQuota]}

BurstKey(key) == key \o "_burst"
SustainedKey(key) == key \o "_sustained"

\* spec.key.split('_').next() and format!("{api}_api"), for the model's keys.
ApiKey(key) ==
    CASE key = "clob_order"  -> "clob_api"
      [] key = "data_health" -> "data_api"
      [] key = "clob"        -> "clob_api"
      [] key = "data"        -> "data_api"

\* The name the model gives RateLimiters.global among a call's buckets.
GlobalName == "<global>"

\* The limiters check_spec looks up for a gate, and the quota of each.
EndpointBuckets(g) ==
    IF g.quota.type = "Single" THEN {g.key}
    ELSE IF g.quota.type = "MultiWindow" THEN {BurstKey(g.key), SustainedKey(g.key)}
    ELSE {}

ApiBuckets(g) == IF g.api_quota # NoQuota THEN {ApiKey(g.key)} ELSE {}

QuotaOf(g, n) ==
    CASE n = g.key               -> g.quota.single
      [] n = BurstKey(g.key)     -> g.quota.burst
      [] n = SustainedKey(g.key) -> g.quota.sustained
      [] n = ApiKey(g.key)       -> g.api_quota

BucketNames ==
    UNION {EndpointBuckets(g) \cup ApiBuckets(g) : g \in Gates} \cup {ApiKey("data")}

NoBucket == [created |-> FALSE, count |-> 0, period |-> 0, cells |-> 0, elapsed |-> 0]

\* RateLimiter::direct(quota): a full bucket.
direct(quota) ==
    [created |-> TRUE, count |-> quota.count, period |-> quota.period,
     cells |-> quota.count, elapsed |-> 0]

MaxAdmitters == 1
Admitters == 1..MaxAdmitters

\* One check_spec or check_api_limit call: the key and the API quota passed,
\* the buckets whose until_ready is pending, those awaited after them,
\* the buckets ever awaited, the buckets a cell was taken from, and for a
\* MultiWindow gate what burst.check() and sustained.check() returned.
NoAdmission ==
    [pc |-> "idle", key |-> None, quota |-> NoQuota, waiting |-> {}, after |-> {},
     awaited |-> {}, taken |-> {},
     burst_ready |-> FALSE, sustained_ready |-> FALSE]

\* check!(self, api_only: api, quota: ..): the APIs and quotas the model's
\* call sites pass to check_api_limit, and the call as a Spec without
\* endpoint quota.
Apis == {"clob"}
ApiQuotas == {Quota(2, 1), Quota(1, 2)}

ApiOnly(api, quota) ==
    [key |-> api,
     quota |-> [type |-> "ApiOnly", single |-> NoQuota, burst |-> NoQuota,
                sustained |-> NoQuota],
     api_quota |-> quota]

\* RateLimiters::new and RateLimiters::with_global.
RateLimiters_new ==
    /\ limiters = [n \in BucketNames |-> NoBucket]
    /\ global = NoBucket

with_global(quota) ==
    /\ limiters = [n \in BucketNames |-> NoBucket]
    /\ global = direct(quota)

\* The clock of a timing test, in ticks: whether one is running, its
\* reading, whether every call so far was issued as soon as the one before
\* it returned, and for each returned call its key and the reading at its
\* return.
NoClock == [on |-> FALSE, now |-> 0, rapid |-> TRUE, admitted |-> <<>>]

LimiterIdle ==
    /\ RateLimiters_new
    /\ admissions = [c \in Admitters |-> NoAdmission]
    /\ clock = NoClock

----------------------------------------------------------------------------
(* Requests and paginated streams.                                          *)

\* TERMINAL_CURSOR: the next_cursor of the last page.
TERMINAL_CURSOR == "LTE="

\* The Stream of stream_data: the position of its generator, its `cursor`
\* local, the page being yielded and the items of it not yet yielded; with
\* them the cursor of every call made, every page received and every item
\* the consumer was given, in order, and how the stream ended.
NoStream ==
    [pc |-> "idle", cursor |-> None, pending |-> <<>>, next_cursor |-> None,
     calls |-> <<>>, pages |-> <<>>, yielded |-> <<>>, end |-> None]

\* No request executed yet.
NoExchange ==
    [op |-> None, method |-> None, path |-> None, headers |-> None,
     by |-> None, sends |-> 0, status |-> 0, body |-> None, result |-> None]

HttpIdle == stream = NoStream /\ http = NoExchange

----------------------------------------------------------------------------
(* The session: one ClientInner behind an Arc, the Client values that hold  *)
(* it, and the keep-alive tasks.                                            *)

\* The host and Config given to Client::new.
Endpoints ==
    {[host |-> "h1", config |-> "default"], [host |-> "h2", config |-> "custom"]}

\* The BuilderConfig given to promote_to_builder.
BuilderConfig == "b1"

\* ClientInner<Unauthenticated> as Client::new and deauthenticate build it.
UnauthenticatedInner(host, config) ==
    [state |-> "Unauthenticated", kind |-> None, builder_config |-> None,
     address |-> None, credentials |-> None,
     host |-> host, config |-> config,
     funder |-> None, signature_type |-> "Eoa",
     salt_generator |-> "generate_seed"]

\* A Client value: st is the position of the operation that owns it
\* ("idle": held by the user), tok its heartbeat_token (0: None, else the
\* task whose CancellationToken and Arc<Receiver> it shares), wait the task
\* whose Receiver cancel_and_wait is awaiting.
FreeHandle == [st |-> "free", tok |-> 0, wait |-> 0]
IdleHandle(tok) == [st |-> "idle", tok |-> tok, wait |-> 0]

\* What post_heartbeat may return: an error, or a response with its
\* heartbeat_id.
HeartbeatIds == {"hb1", "hb2"}
HeartbeatAnswers == {"Err"} \cup HeartbeatIds

\* The ping a task has in flight: the heartbeat_id in its body, and the
\* session state and credentials its headers were made from.
NoPing == [sent |-> FALSE, heartbeat_id |-> None, state |-> None, credentials |-> None]

\* A keep-alive task: its position in the spawned block, whether its
\* CancellationToken is cancelled, its `heartbeat_id` local, how many ticks
\* of its ticker have completed (2: two or more), the ping it has in flight,
\* and the heartbeat_id of the latest response it was given.
UnusedTask ==
    [pc |-> "unused", cancelled |-> FALSE, heartbeat_id |-> None, ticks |-> 0,
     ping |-> NoPing, latest |-> None]

\* A task whose loop starts on the ticker's first tick.
SpawnedTask_before_first_tick == [UnusedTask EXCEPT !.pc = "select"]

\* The task at its select!: the first tick of time::interval, which completes
\* at once, was consumed by the `ticker.tick().await` before the loop.
SpawnedTask == [UnusedTask EXCEPT !.pc = "select", !.ticks = 1]

Live(h) == handles[h].st # "free"

\* The task still owns client_clone (a clone of the Arc).
TaskHolds(t) == tasks[t].pc \in {"select", "posting", "sent"}

\* The task is in its loop.
Running(t) == tasks[t].pc \in {"select", "posting"}

\* A Receiver that resolves as soon as the token is cancelled.
TxSent_on_cancel(t) == tasks[t].cancelled

\* A Receiver that resolves only when awaited before the task has ended.
TxSent_lost_after_exit(t) == tasks[t].pc = "sent"

\* tx.send(()) has happened: the Receiver resolves.
TxSent(t) == tasks[t].pc \in {"sent", "done"}

\* Arc::strong_count of the ClientInner.
strong_count ==
    Cardinality({h \in Handles : Live(h)}) + Cardinality({t \in Tasks : TaskHolds(t)})

\* Arc::strong_count of task t's Arc<Receiver<()>>.
rx_count(t) == Cardinality({h \in Handles : Live(h) /\ handles[h].tok = t})

\* Another user-held Client references the ClientInner.
OtherUsers(h) == \E g \in Handles \ {h} : Live(g)

\* A task slot nothing refers to any more.
FreeTask(t) ==
    /\ tasks[t].pc \in {"unused", "done"}
    /\ \A h \in Handles : Live(h) => handles[h].tok # t /\ handles[h].wait # t

FirstFreeTask(t) == FreeTask(t) /\ \A u \in Tasks : FreeTask(u) => t <= u

FirstFreeHandle(g) == ~Live(g) /\ \A f \in Handles : ~Live(f) => g <= f

\* An operation that reports no input: no Client and no token.
NoInput == [h |-> 0, tok |-> 0]

\* What an operation reports: its result, whether another user-held Client
\* referenced the ClientInner at its ownership check, the task it awaited in
\* cancel_and_wait (0: none) and whether that task still owned its clone of
\* the Arc when cancel_and_wait returned.
Report(op, res, others, waited, task_held) ==
    [op |-> op, res |-> res, error |-> None, others |-> others,
     waited |-> waited, task_held |-> task_held,
     in |-> NoInput, requests |-> <<>>, attempts |-> <<>>, outcomes |-> <<>>,
     credentials |-> None, out |-> None]

InitSession ==
    /\ heartbeats \in BOOLEAN
    /\ \E e \in Endpoints : inner = UnauthenticatedInner(e.host, e.config)
    /\ handles = [h \in Handles |-> IF h = 1 THEN IdleHandle(0) ELSE FreeHandle]
    /\ tasks = [t \in Tasks |-> UnusedTask]
    /\ last = Report("new", "Ok", FALSE, 0, FALSE)

\* Client::new, once nothing of the previous client is left.
NewClient(h, endpoints) ==
    /\ strong_count = 0
    /\ FirstFreeHandle(h)
    /\ \E e \in endpoints : inner' = UnauthenticatedInner(e.host, e.config)
    /\ handles' = [handles EXCEPT ![h] = IdleHandle(0)]
    /\ tasks' = [t \in Tasks |-> UnusedTask]
    /\ last' = Report("new", "Ok", FALSE, 0, FALSE)
    /\ caches' = EmptyCaches
    /\ UNCHANGED heartbeats
    /\ UNCHANGED <<lookups, rlVars, httpVars>>

New(h) == NewClient(h, Endpoints)

\* Client::new with the default Config.
DefaultEndpoints == {e \in Endpoints : e.config = "default"}

NewDefault(h) == NewClient(h, DefaultEndpoints)

\* #[derive(Clone)] on Client: the Arc and the token are cloned.
Clone(h, g) ==
    /\ handles[h].st = "idle"
    /\ FirstFreeHandle(g)
    /\ handles' = [handles EXCEPT ![g] = IdleHandle(handles[h].tok)]
    /\ last' = Report("clone", "Ok", TRUE, 0, FALSE)
    /\ UNCHANGED <<heartbeats, inner, tasks>>
    /\ UNCHANGED <<cacheVars, rlVars, httpVars>>

\* Drop for DroppingCancellationToken: token.cancel() when a token is held.
CancelOnDrop(tok) ==
    IF tok = 0 THEN tasks ELSE [tasks EXCEPT ![tok].cancelled = TRUE]

\* Dropping a Client value.
Drop(h) ==
    /\ handles[h].st = "idle"
    /\ handles' = [handles EXCEPT ![h] = FreeHandle]
    /\ tasks' = CancelOnDrop(handles[h].tok)
    /\ last' = Report("drop", "Ok", OtherUsers(h), 0, FALSE)
    /\ UNCHANGED <<heartbeats, inner>>
    /\ UNCHANGED <<cacheVars, rlVars, httpVars>>

\* Arc::into_inner(self.inner): Some only for the last strong reference.
into_inner == strong_count = 1

\* The Authenticated ClientInner that authenticate builds.
AuthenticatedInner(in, r) ==
    [state |-> "Authenticated", kind |-> "Normal", builder_config |-> None,
     address |-> in.address, credentials |-> r.credentials,
     host |-> inner.host, config |-> inner.config, funder |-> r.funder,
     signature_type |-> r.signature_type, salt_generator |-> r.salt_generator]

\* AuthenticationBuilder::authenticate. The builder (and the Client in it) is
\* consumed on every path; on an error after into_inner the ClientInner is
\* dropped with it. With the heartbeats feature the new Client starts its
\* keep-alive before it is returned.
AuthenticateWith(h, Inputs) ==
    /\ handles[h].st = "idle"
    /\ inner.state = "Unauthenticated"
    /\ IF ~into_inner
       THEN \E in \in Inputs :
            /\ handles' = [handles EXCEPT ![h] = FreeHandle]
            /\ last' = [Report("authenticate", "Synchronization", OtherUsers(h), 0, FALSE)
                           EXCEPT !.in = in]
            /\ UNCHANGED <<inner, tasks>>
       ELSE \E in \in Inputs : \E out \in RequestOutcomes(in.credentials = None) :
            LET r == authenticate(in, out[1], out[2])
                t == CHOOSE u \in Tasks : FirstFreeTask(u)
            IN  /\ last' = [Report("authenticate", r.res, FALSE, 0, FALSE)
                               EXCEPT !.in = in, !.error = r.error,
                                      !.requests = r.requests, !.attempts = r.attempts,
                                      !.credentials = r.credentials,
                                      !.outcomes = IF r.attempts = <<>> THEN <<>> ELSE out]
                /\ IF r.res # "Ok"
                   THEN /\ handles' = [handles EXCEPT ![h] = FreeHandle]
                        /\ UNCHANGED <<inner, tasks>>
                   ELSE /\ inner' = AuthenticatedInner(in, r)
                        /\ IF heartbeats
                           THEN /\ tasks' = [tasks EXCEPT ![t] = SpawnedTask]
                                /\ handles' = [handles EXCEPT ![h] = IdleHandle(t)]
                           ELSE /\ handles' = [handles EXCEPT ![h] = IdleHandle(0)]
                                /\ UNCHANGED tasks
    /\ UNCHANGED heartbeats
    /\ UNCHANGED <<cacheVars, rlVars, httpVars>>

\* Client<Unauthenticated>::create_or_derive_api_key, called directly.
CreateOrDeriveApiKey(h) ==
    /\ handles[h].st = "idle"
    /\ inner.state = "Unauthenticated"
    /\ \E signer \in Signers, nonce \in Nonces : \E out \in RequestOutcomes(TRUE) :
        LET r == create_or_derive_api_key(signer, nonce, out[1], out[2])
        IN  last' = [Report("create_or_derive_api_key",
                            IF r.result.ok THEN "Ok" ELSE "Error", OtherUsers(h), 0, FALSE)
                        EXCEPT !.in = [address |-> signer, nonce |-> nonce,
                                       credentials |-> None],
                               !.error = r.result.error,
                               !.requests = r.requests, !.attempts = r.attempts,
                               !.credentials = r.result.credentials,
                               !.outcomes = out]
    /\ UNCHANGED <<heartbeats, inner, handles, tasks>>
    /\ UNCHANGED <<cacheVars, rlVars, httpVars>>

\* authenticate with any builder.
Elevate(h) == AuthenticateWith(h, AuthInputs)

\* authenticate with the builders the keep-alive specification draws from: a
\* signer with or without a chain id, explicit or requested credentials.
SessionInputs ==
    {in \in AuthInputs :
        /\ in.chain_id \in {"POLYGON", None}
        /\ in.nonce = None /\ in.funder = None
        /\ in.signature_type = None /\ in.salt_generator = None}

Authenticate(h) == AuthenticateWith(h, SessionInputs)

\* DroppingCancellationToken::cancel_and_wait up to its await: "Ok" when no
\* token is held, "wait" when Arc::try_unwrap(rx) succeeds (the token is then
\* cancelled and the Receiver awaited), "Synchronization" when another Client
\* shares the Receiver (token and receiver are put back).
cancel_and_wait(h) ==
    IF handles[h].tok = 0 THEN "Ok"
    ELSE IF rx_count(handles[h].tok) = 1 THEN "wait"
    ELSE "Synchronization"

\* A promote_to_builder that builds the new ClientInner with the default
\* order parameters, as deauthenticate does.
Rebuilt_promote_resets(op) ==
    IF op = "deauthenticate" THEN UnauthenticatedInner(inner.host, inner.config)
    ELSE [inner EXCEPT !.kind = "Builder", !.builder_config = BuilderConfig,
                       !.funder = None, !.signature_type = "Eoa",
                       !.salt_generator = "generate_seed"]

\* A deauthenticate that carries the order parameters over.
Rebuilt_keeps_order_parameters(op) ==
    IF op = "deauthenticate"
    THEN [inner EXCEPT !.state = "Unauthenticated", !.kind = None,
                       !.address = None, !.credentials = None]
    ELSE [inner EXCEPT !.kind = "Builder", !.builder_config = BuilderConfig]

\* The ClientInner that deauthenticate / promote_to_builder builds from the
\* one it extracted.
Rebuilt(op) ==
    IF op = "deauthenticate" THEN UnauthenticatedInner(inner.host, inner.config)
    ELSE [inner EXCEPT !.kind = "Builder", !.builder_config = BuilderConfig]

\* The rest of deauthenticate / promote_to_builder once cancel_and_wait has
\* returned Ok: Arc::into_inner, the new Client, and for promote_to_builder
\* start_heartbeats on it. `waited` is the task cancel_and_wait awaited.
Extract(h, op, waited) ==
    LET held == waited # 0 /\ TaskHolds(waited)
        t    == CHOOSE u \in Tasks :
                    /\ tasks[u].pc \in {"unused", "done"}
                    /\ \A v \in Tasks : tasks[v].pc \in {"unused", "done"} => u <= v
    IN  IF ~into_inner
        THEN /\ handles' = [handles EXCEPT ![h] = FreeHandle]
             /\ last' = [Report(op, "Synchronization", OtherUsers(h), waited, held)
                            EXCEPT !.in = inner]
             /\ UNCHANGED <<inner, tasks>>
        ELSE /\ inner' = Rebuilt(op)
             /\ last' = [Report(op, "Ok", OtherUsers(h), waited, held)
                            EXCEPT !.in = inner]
             /\ IF op = "promote_to_builder" /\ heartbeats
                THEN /\ tasks' = [tasks EXCEPT ![t] = SpawnedTask]
                     /\ handles' = [handles EXCEPT ![h] = IdleHandle(t)]
                ELSE /\ handles' = [handles EXCEPT ![h] = IdleHandle(0)]
                     /\ UNCHANGED tasks

\* Client::deauthenticate and Client::promote_to_builder up to the await in
\* cancel_and_wait (or to their end when nothing is awaited). On the `?` of
\* a failed cancel_and_wait self is dropped, and the token it got back with it.
Transition(h, op) ==
    /\ handles[h].st = "idle"
    /\ inner.state = "Authenticated"
    /\ op = "promote_to_builder" => inner.kind = "Normal"
    /\ LET c == cancel_and_wait(h)
           tok == handles[h].tok
       IN  IF c = "Synchronization"
           THEN /\ handles' = [handles EXCEPT ![h] = FreeHandle]
                /\ tasks' = CancelOnDrop(tok)
                /\ last' = Report(op, "Synchronization", OtherUsers(h), 0, FALSE)
                /\ UNCHANGED inner
           ELSE IF c = "wait"
           THEN /\ handles' = [handles EXCEPT ![h] = [st |-> op, tok |-> 0, wait |-> tok]]
                /\ tasks' = [tasks EXCEPT ![tok].cancelled = TRUE]
                /\ UNCHANGED <<inner, last>>
           ELSE Extract(h, op, 0)
    /\ UNCHANGED heartbeats
    /\ UNCHANGED <<cacheVars, rlVars, httpVars>>

Deauthenticate(h) == Transition(h, "deauthenticate")

PromoteToBuilder(h) == Transition(h, "promote_to_builder")

\* `_ = inner.await` resolves in cancel_and_wait, and deauthenticate /
\* promote_to_builder run to their end.
Resume(h) ==
    /\ handles[h].st \in {"deauthenticate", "promote_to_builder"}
    /\ TxSent(handles[h].wait)
    /\ Extract(h, handles[h].st, handles[h].wait)
    /\ UNCHANGED heartbeats
    /\ UNCHANGED <<cacheVars, rlVars, httpVars>>

\* The Client an operation was called on, and the token it held.
Callee(h) == [h |-> h, tok |-> handles[h].tok]

\* A start_heartbeats that spawns a task whether or not a token is held.
StartHeartbeats_unguarded(h) ==
    /\ heartbeats
    /\ handles[h].st = "idle"
    /\ inner.state = "Authenticated"
    /\ \E t \in Tasks :
            /\ FirstFreeTask(t)
            /\ tasks' = [tasks EXCEPT ![t] = SpawnedTask]
            /\ handles' = [handles EXCEPT ![h] = IdleHandle(t)]
            /\ last' = [Report("start_heartbeats", "Ok", OtherUsers(h), 0, FALSE)
                           EXCEPT !.in = Callee(h)]
    /\ UNCHANGED <<heartbeats, inner>>
    /\ UNCHANGED <<cacheVars, rlVars, httpVars>>

\* Client::start_heartbeats: a Validation error when this Client holds a
\* token; otherwise a task is spawned with a clone of the Client.
StartHeartbeats(h) ==
    /\ heartbeats
    /\ handles[h].st = "idle"
    /\ inner.state = "Authenticated"
    /\ IF handles[h].tok # 0
       THEN /\ last' = [Report("start_heartbeats", "Validation", OtherUsers(h), 0, FALSE)
                           EXCEPT !.in = Callee(h)]
            /\ UNCHANGED <<handles, tasks>>
       ELSE \E t \in Tasks :
            /\ FirstFreeTask(t)
            /\ tasks' = [tasks EXCEPT ![t] = SpawnedTask]
            /\ handles' = [handles EXCEPT ![h] = IdleHandle(t)]
            /\ last' = [Report("start_heartbeats", "Ok", OtherUsers(h), 0, FALSE)
                           EXCEPT !.in = Callee(h)]
    /\ UNCHANGED <<heartbeats, inner>>
    /\ UNCHANGED <<cacheVars, rlVars, httpVars>>

\* Client::stop_heartbeats up to the await in cancel_and_wait.
StopHeartbeats(h) ==
    /\ heartbeats
    /\ handles[h].st = "idle"
    /\ inner.state = "Authenticated"
    /\ LET c == cancel_and_wait(h)
           tok == handles[h].tok
       IN  IF c = "wait"
           THEN /\ handles' = [handles EXCEPT ![h] = [st |-> "stop_heartbeats", tok |-> 0,
                                                      wait |-> tok]]
                /\ tasks' = [tasks EXCEPT ![tok].cancelled = TRUE]
                /\ UNCHANGED last
           ELSE /\ last' = [Report("stop_heartbeats", c, OtherUsers(h), 0, FALSE)
                               EXCEPT !.in = Callee(h)]
                /\ UNCHANGED <<handles, tasks>>
    /\ UNCHANGED <<heartbeats, inner>>
    /\ UNCHANGED <<cacheVars, rlVars, httpVars>>

\* `_ = inner.await` resolves in the cancel_and_wait of stop_heartbeats.
ResumeStop(h) ==
    /\ handles[h].st = "stop_heartbeats"
    /\ TxSent(handles[h].wait)
    /\ handles' = [handles EXCEPT ![h] = IdleHandle(0)]
    /\ last' = [Report("stop_heartbeats", "Ok", OtherUsers(h), handles[h].wait,
                       TaskHolds(handles[h].wait))
                   EXCEPT !.in = [h |-> h, tok |-> handles[h].wait]]
    /\ UNCHANGED <<heartbeats, inner, tasks>>
    /\ UNCHANGED <<cacheVars, rlVars, httpVars>>

----------------------------------------------------------------------------
(* The task spawned by start_heartbeats.                                    *)

\* select!: the ticker fires, one interval after its tick before, and
\* post_heartbeat(heartbeat_id) is awaited.
TaskTick(t) ==
    /\ tasks[t].pc = "select"
    /\ tasks' = [tasks EXCEPT ![t].pc = "posting",
                              ![t].ticks = IF @ < 2 THEN @ + 1 ELSE 2,
                              ![t].ping = [sent |-> TRUE,
                                           heartbeat_id |-> tasks[t].heartbeat_id,
                                           state |-> inner.state,
                                           credentials |-> inner.credentials]]
    /\ UNCHANGED <<heartbeats, inner, handles, last>>
    /\ UNCHANGED <<cacheVars, rlVars, httpVars>>

\* A loop in which a failed ping forgets the heartbeat_id.
TaskPosted_failure_clears_id(t, Answers) ==
    /\ tasks[t].pc = "posting"
    /\ \E answer \in Answers :
        tasks' = [tasks EXCEPT ![t].pc = "select",
                               ![t].ping = NoPing,
                               ![t].heartbeat_id = IF answer = "Err" THEN None ELSE answer,
                               ![t].latest = IF answer = "Err" THEN @ ELSE answer]
    /\ UNCHANGED <<heartbeats, inner, handles, last>>
    /\ UNCHANGED <<cacheVars, rlVars, httpVars>>

\* A loop that a failed ping ends.
TaskPosted_failure_ends_loop(t, Answers) ==
    /\ tasks[t].pc = "posting"
    /\ \E answer \in Answers :
        tasks' = [tasks EXCEPT ![t].pc = IF answer = "Err" THEN "sent" ELSE "select",
                               ![t].ping = NoPing,
                               ![t].heartbeat_id = IF answer = "Err" THEN @ ELSE answer,
                               ![t].latest = IF answer = "Err" THEN @ ELSE answer]
    /\ UNCHANGED <<heartbeats, inner, handles, last>>
    /\ UNCHANGED <<cacheVars, rlVars, httpVars>>

\* post_heartbeat returns one of Answers: Ok(response) stores
\* response.heartbeat_id, Err(e) is logged; back to the select!.
TaskPosted(t, Answers) ==
    /\ tasks[t].pc = "posting"
    /\ \E answer \in Answers :
        tasks' = [tasks EXCEPT ![t].pc = "select",
                               ![t].ping = NoPing,
                               ![t].heartbeat_id = IF answer = "Err" THEN @ ELSE answer,
                               ![t].latest = IF answer = "Err" THEN @ ELSE answer]
    /\ UNCHANGED <<heartbeats, inner, handles, last>>
    /\ UNCHANGED <<cacheVars, rlVars, httpVars>>

\* select!: token_clone.cancelled() resolves, the loop is left and
\* tx.send(()) is evaluated; client_clone is still owned by the block.
TaskSend(t) ==
    /\ tasks[t].pc = "select"
    /\ tasks[t].cancelled
    /\ tasks' = [tasks EXCEPT ![t].pc = "sent"]
    /\ UNCHANGED <<heartbeats, inner, handles, last>>
    /\ UNCHANGED <<cacheVars, rlVars, httpVars>>

\* The block ends: its captured client_clone and its locals are dropped.
TaskRelease(t) ==
    /\ tasks[t].pc = "sent"
    /\ tasks' = [tasks EXCEPT ![t] = [UnusedTask EXCEPT !.pc = "done",
                                                        !.cancelled = tasks[t].cancelled]]
    /\ UNCHANGED <<heartbeats, inner, handles, last>>
    /\ UNCHANGED <<cacheVars, rlVars, httpVars>>

Init == InitSession /\ CacheIdle /\ LimiterIdle /\ HttpIdle

Next ==
    \/ \E h \in Handles : New(h)
    \/ \E h, g \in Handles : Clone(h, g)
    \/ \E h \in Handles : Drop(h)
    \/ \E h \in Handles : Authenticate(h)
    \/ \E h \in Handles : Deauthenticate(h)
    \/ \E h \in Handles : PromoteToBuilder(h)
    \/ \E h \in Handles : Resume(h)
    \/ \E h \in Handles : StartHeartbeats(h)
    \/ \E h \in Handles : StopHeartbeats(h)
    \/ \E h \in Handles : ResumeStop(h)
    \/ \E t \in Tasks : TaskTick(t)
    \/ \E t \in Tasks : TaskPosted(t, HeartbeatAnswers)
    \/ \E t \in Tasks : TaskSend(t)
    \/ \E t \in Tasks : TaskRelease(t)

Spec == Init /\ [][Next]_vars

----------------------------------------------------------------------------
(* The build without the heartbeats feature, with every builder.            *)

InitElevate == Init /\ ~heartbeats /\ inner.config = "default"

NextElevate ==
    \/ \E h \in Handles : NewDefault(h)
    \/ \E h, g \in Handles : Clone(h, g)
    \/ \E h \in Handles : Drop(h)
    \/ \E h \in Handles : Elevate(h)
    \/ \E h \in Handles : CreateOrDeriveApiKey(h)
    \/ \E h \in Handles : Deauthenticate(h)
    \/ \E h \in Handles : PromoteToBuilder(h)

SpecElevate == InitElevate /\ [][NextElevate]_vars

----------------------------------------------------------------------------
(* Claims about the requests of an elevation.                               *)

\* C28: an authenticate that returned Validation or Synchronization sent no
\* request; one that sent (or set out to send) a credential request had
\* passed the ownership check and every validation check and was given no
\* credentials, and one that passed them without credentials did set out to
\* create the key; with explicit credentials no request is sent and the
\* session stores exactly those credentials.
C28_RequestAfterChecks ==
    last.op = "authenticate" =>
        LET in == last.in
            sig == in.signature_type
        IN  /\ last.res \in {"Validation", "Synchronization"} =>
                    last.requests = <<>> /\ last.attempts = <<>>
            /\ (last.requests # <<>> \/ last.attempts # <<>>) =>
                    /\ ~last.others
                    /\ in.credentials = None
                    /\ in.chain_id \in {"POLYGON", "AMOY"}
                    /\ ~(in.funder # None /\ sig = "Eoa")
                    /\ ~(in.funder = ZERO /\ sig \in {"Proxy", "GnosisSafe"})
                    /\ (in.funder = None /\ sig = "Proxy") =>
                            derive_proxy_wallet(in.address, in.chain_id) # None
                    /\ (in.funder = None /\ sig = "GnosisSafe") =>
                            derive_safe_wallet(in.address, in.chain_id) # None
                    /\ last.attempts[1] = Req("create", in.address, in.nonce)
            /\ (in.credentials = None /\ last.res \notin {"Validation", "Synchronization"}) =>
                    last.attempts # <<>>
            /\ in.credentials # None =>
                    /\ last.requests = <<>>
                    /\ last.res = "Ok" =>
                            /\ last.credentials = in.credentials
                            /\ inner.state = "Authenticated"
                            /\ inner.credentials = in.credentials

\* C28, its case: an elevation without credentials, on the only Client of
\* the session, fails a validation check after the chain check.
C28_RejectedBeforeRequest ==
    /\ last.op = "authenticate" /\ last.res = "Validation"
    /\ ~last.others
    /\ last.in.credentials = None
    /\ last.in.chain_id = "POLYGON"
    /\ last.in.funder = ZERO /\ last.in.signature_type = "Proxy"

----------------------------------------------------------------------------
(* The keep-alive across the clones of one authenticated session: clients   *)
(* are cloned and dropped, and start and stop their heartbeats.             *)

\* The one builder of this specification: explicit credentials on POLYGON.
KeepAliveInputs ==
    {in \in SessionInputs : in.chain_id = "POLYGON" /\ in.credentials # None}

\* The server of this specification answers no ping.
KeepAliveAnswers == {"Err"}

InitKeepAlive == Init /\ heartbeats /\ inner.config = "default"

NextKeepAlive ==
    \/ \E h \in Handles : AuthenticateWith(h, KeepAliveInputs)
    \/ \E h, g \in Handles : Clone(h, g)
    \/ \E h \in Handles : Drop(h)
    \/ \E h \in Handles : StartHeartbeats(h)
    \/ \E h \in Handles : StopHeartbeats(h)
    \/ \E h \in Handles : ResumeStop(h)
    \/ \E t \in Tasks : TaskTick(t)
    \/ \E t \in Tasks : TaskPosted(t, KeepAliveAnswers)
    \/ \E t \in Tasks : TaskSend(t)
    \/ \E t \in Tasks : TaskRelease(t)

SpecKeepAlive == InitKeepAlive /\ [][NextKeepAlive]_vars

----------------------------------------------------------------------------
(* Claims about the session.                                                *)

IsTransition == last.op \in {"authenticate", "deauthenticate", "promote_to_builder"}

\* C1: authenticate, deauthenticate and promote_to_builder fail with
\* Synchronization whenever another user-held clone references the
\* ClientInner at the ownership check, and do not fail with Synchronization
\* when the handle is the only user-held reference.
C1_OwnershipCheck ==
    IsTransition =>
        /\ last.others => last.res = "Synchronization"
        /\ ~last.others => last.res # "Synchronization"

C6_CancelAwaitedToCompletion ==
    last.waited # 0 =>
        /\ ~last.task_held
        /\ (IsTransition /\ ~last.others) => last.res = "Ok"

\* The calls that went through create_or_derive_api_key.
C8_Called ==
    /\ last.op \in {"authenticate", "create_or_derive_api_key"}
    /\ last.outcomes # <<>>

C8_Kinds(calls) == [i \in 1..Len(calls) |-> calls[i].kind]

\* C8: create_or_derive_api_key calls create once; if create succeeds its
\* credentials are returned and derive is neither called nor requested; if
\* create fails (for either reason) derive is called exactly once, with the
\* same signer and nonce; if derive fails too the error returned is derive's.
C8_CreateOrDerive ==
    C8_Called =>
        LET createOutcome == last.outcomes[1]
            deriveOutcome == last.outcomes[2]
            signer == last.in.address
            nonce  == last.in.nonce
        IN  /\ \A i \in 1..Len(last.attempts) :
                    last.attempts[i].signer = signer /\ last.attempts[i].nonce = nonce
            /\ \A i \in 1..Len(last.requests) :
                    last.requests[i].signer = signer /\ last.requests[i].nonce = nonce
            /\ createOutcome = "ok" =>
                    /\ C8_Kinds(last.attempts) = <<"create">>
                    /\ C8_Kinds(last.requests) = <<"create">>
                    /\ last.res = "Ok"
                    /\ last.credentials = ApiKeyResult("create", signer, nonce, "ok").credentials
            /\ createOutcome # "ok" =>
                    /\ C8_Kinds(last.attempts) = <<"create", "derive">>
                    /\ deriveOutcome = "ok" =>
                            /\ last.res = "Ok"
                            /\ last.credentials =
                                   ApiKeyResult("derive", signer, nonce, "ok").credentials
                    /\ deriveOutcome # "ok" =>
                            /\ last.res = "Error"
                            /\ last.error = "derive:" \o deriveOutcome

\* C8, its case: create and derive were both requested and both answered
\* with an error status.
C8_BothFailed ==
    /\ C8_Called
    /\ last.outcomes = <<"status_error", "status_error">>
    /\ C8_Kinds(last.requests) = <<"create", "derive">>
    /\ last.res = "Error"

C9_BothSet ==
    /\ last.op = "authenticate"
    /\ last.in.credentials # None
    /\ last.in.nonce # None

\* C9 as stated: authenticate with both credentials and nonce set always
\* fails with a Validation error.
C9_AlwaysValidation == C9_BothSet => last.res = "Validation"

\* C9, amended: authenticate with both credentials and nonce set always
\* fails and sends no request: with Synchronization when another clone holds
\* the ClientInner, and with Validation otherwise, whatever the chain id,
\* funder, signature type and salt generator.
C9_ValidationWhenOwned ==
    C9_BothSet =>
        /\ last.res = IF last.others THEN "Synchronization" ELSE "Validation"
        /\ last.requests = <<>>
        /\ last.attempts = <<>>

\* C9, its case: every other check passed and the credentials/nonce guard
\* is what rejected the call.
C9_RejectedByGuard ==
    /\ C9_BothSet
    /\ last.res = "Validation"
    /\ last.error = "CredentialsAndNonce"
    /\ last.in.signature_type = "Proxy" /\ last.in.funder = "F1"
    /\ last.in.salt_generator = "custom"

\* The scheme a builder stands for: SignatureType::Eoa unless one is given.
C10_Scheme(in) == IF in.signature_type = None THEN "Eoa" ELSE in.signature_type

C11_BadChain ==
    /\ last.op = "authenticate"
    /\ last.in.chain_id \notin {"POLYGON", "AMOY"}

C12_Elevated == last.op = "authenticate" /\ last.res = "Ok"

\* C12: the funder of an Authenticated session is the supplied funder when
\* one was supplied, and otherwise, for Proxy and GnosisSafe, the wallet
\* derived from (signer address, chain id) alone, whatever the credentials,
\* the nonce, the salt generator and the sessions before it.
C12_FunderFromSignerAndChain ==
    C12_Elevated =>
        /\ inner.state = "Authenticated"
        /\ inner.funder =
              IF last.in.funder # None THEN last.in.funder
              ELSE IF last.in.signature_type = "Proxy"
                   THEN derive_proxy_wallet(last.in.address, last.in.chain_id)
              ELSE IF last.in.signature_type = "GnosisSafe"
                   THEN derive_safe_wallet(last.in.address, last.in.chain_id)
              ELSE None

\* C12, its case: a Proxy session without a supplied funder, elevated with a
\* nonce and created credentials, holds the derived wallet.
C12_DerivedProxyFunder ==
    /\ C12_Elevated
    /\ last.in.funder = None /\ last.in.signature_type = "Proxy"
    /\ last.in.nonce # None /\ last.in.credentials = None
    /\ inner.funder = derive_proxy_wallet(last.in.address, "POLYGON")
    /\ inner.funder # None

\* The step is a call of start_heartbeats (one that repeats the report
\* before it changes nothing at all).
StartCalled ==
    /\ last'.op = "start_heartbeats"
    /\ \/ last.op # "start_heartbeats"
       \/ last.in # last'.in
       \/ last.res # last'.res
       \/ last.others # last'.others

\* C15: start_heartbeats on a Client that holds a keep-alive token fails
\* with Validation and changes neither the tasks nor the Client; on a Client
\* without a token it spawns exactly one task, whose token the Client then
\* holds; and a Client that held a token is again without one only when
\* stop_heartbeats on it has returned Ok.
C15_OneKeepAlivePerClient ==
    [][/\ StartCalled =>
            LET h == last'.in.h
            IN  IF handles[h].tok # 0
                THEN /\ last'.res = "Validation"
                     /\ tasks' = tasks /\ handles' = handles
                ELSE /\ last'.res = "Ok"
                     /\ handles'[h].tok # 0
                     /\ ~Running(handles'[h].tok)
                     /\ tasks'[handles'[h].tok] = SpawnedTask
                     /\ \A t \in Tasks \ {handles'[h].tok} : tasks'[t] = tasks[t]
       /\ \A h \in Handles :
            (/\ handles[h].st \in {"idle", "stop_heartbeats"}
             /\ handles[h].tok # 0 \/ handles[h].wait # 0
             /\ handles'[h] = IdleHandle(0))
            => (last'.op = "stop_heartbeats" /\ last'.res = "Ok" /\ last'.in.h = h)
      ]_vars

\* C15, its case: start_heartbeats was refused on a Client whose keep-alive
\* task is running.
C15_SecondStartRefused ==
    /\ last.op = "start_heartbeats" /\ last.res = "Validation"
    /\ handles[last.in.h].tok # 0
    /\ Running(handles[last.in.h].tok)
    /\ ~tasks[handles[last.in.h].tok].cancelled

\* A step in which authenticate, deauthenticate or promote_to_builder
\* returns Synchronization: the Client it consumed is gone.
FailedTransition ==
    /\ last'.op \in {"authenticate", "deauthenticate", "promote_to_builder"}
    /\ last'.res = "Synchronization"
    /\ \E h \in Handles : Live(h) /\ ~Live(h)'

\* A step in which stop_heartbeats returns Synchronization.
FailedStop ==
    /\ last'.op = "stop_heartbeats" /\ last'.res = "Synchronization"
    /\ \/ last.op # "stop_heartbeats"
       \/ last.in # last'.in
       \/ last.res # last'.res
       \/ last.others # last'.others

\* C16: a transition or a stop_heartbeats that fails with Synchronization
\* leaves the session as it was: the ClientInner, the caches, every
\* keep-alive task and every other Client are unchanged by the failing call,
\* and the call has not cancelled and awaited a keep-alive on its way.
C16_FailureLeavesSession ==
    [][(FailedTransition \/ FailedStop) =>
            /\ inner' = inner
            /\ caches' = caches
            /\ tasks' = tasks
            /\ last'.waited = 0
            /\ \A g \in Handles : Live(g)' => handles'[g] = handles[g]
      ]_vars

----------------------------------------------------------------------------
(* Cache lookups. tick_size, neg_risk and fee_rate_bps share one shape:     *)
(* read the map, return on a hit, otherwise send the request, await the     *)
(* response, insert it and return it. The await is where other lookups      *)
(* interleave.                                                              *)

InFlight(n, k) ==
    {d \in Callers : /\ lookups[d].pc = "fetch"
                     /\ lookups[d].cache = n
                     /\ lookups[d].token_id = k}

\* The call up to its first await: a hit returns the cached value, a miss
\* sends the request.
Lookup(c, n, k) ==
    /\ lookups[c].pc = "idle"
    /\ IF caches[n][k] # None
       THEN lookups' = [lookups EXCEPT ![c] =
                [NoLookup EXCEPT !.pc = "done", !.cache = n, !.token_id = k,
                                 !.result = caches[n][k]]]
       ELSE lookups' = [d \in Callers |->
                IF d = c
                THEN [NoLookup EXCEPT !.pc = "fetch", !.cache = n, !.token_id = k,
                                      !.fetched = TRUE, !.peers = InFlight(n, k)]
                ELSE IF d \in InFlight(n, k)
                     THEN [lookups[d] EXCEPT !.peers = @ \cup {c}]
                     ELSE lookups[d]]
    /\ UNCHANGED <<caches, sessionVars, rlVars, httpVars>>

\* The response arrives: DashMap::insert replaces whatever the key held.
FetchOk(c, v) ==
    /\ lookups[c].pc = "fetch"
    /\ caches' = [caches EXCEPT ![lookups[c].cache][lookups[c].token_id] = v]
    /\ lookups' = [lookups EXCEPT ![c].pc = "done", ![c].inserted = TRUE,
                                  ![c].result = v]
    /\ UNCHANGED <<sessionVars, rlVars, httpVars>>

\* A lookup that caches a value for the key when its request fails.
FetchErr_stores_default(c) ==
    /\ lookups[c].pc = "fetch"
    /\ caches' = [caches EXCEPT ![lookups[c].cache][lookups[c].token_id] = "v1"]
    /\ lookups' = [lookups EXCEPT ![c].pc = "done", ![c].result = "Error"]
    /\ UNCHANGED <<sessionVars, rlVars, httpVars>>

\* The request fails: `?` returns the error, nothing is inserted.
FetchErr(c) ==
    /\ lookups[c].pc = "fetch"
    /\ lookups' = [lookups EXCEPT ![c].pc = "done", ![c].result = "Error"]
    /\ UNCHANGED <<caches, sessionVars, rlVars, httpVars>>

\* The caller takes the result and is free to call again.
Return(c) ==
    /\ lookups[c].pc = "done"
    /\ lookups' = [d \in Callers |->
            IF d = c THEN NoLookup
            ELSE [lookups[d] EXCEPT !.peers = @ \ {c}]]
    /\ UNCHANGED <<caches, sessionVars, rlVars, httpVars>>

\* DashMap::clear on one of the three maps.
Cleared(n) == [caches EXCEPT ![n] = [k \in TokenIds |-> None]]

\* The calls after caller c's clear of map n, which takes c to position pc:
\* the requests in flight for map n have been overtaken by the clear.
Overtaken(c, n, pc) ==
    [d \in Callers |->
        IF d = c THEN [lookups[c] EXCEPT !.pc = pc]
        ELSE IF lookups[d].pc = "fetch" /\ lookups[d].cache = n
             THEN [lookups[d] EXCEPT !.cleared = TRUE]
             ELSE lookups[d]]

\* The maps that an invalidate_internal_caches at position pc has yet to
\* clear.
Uncleared(pc) ==
    IF pc = "clear_fee_rate_bps" THEN {"fee_rate_bps", "neg_risk"}
    ELSE IF pc = "clear_neg_risk" THEN {"neg_risk"}
    ELSE {}

\* Client::invalidate_internal_caches, statement by statement: it takes
\* &self and no lock, so calls on other threads run between its clears.
\* First self.inner.tick_sizes.clear().
Invalidate(c) ==
    /\ lookups[c].pc = "idle"
    /\ caches' = Cleared("tick_sizes")
    /\ lookups' = Overtaken(c, "tick_sizes", "clear_fee_rate_bps")
    /\ UNCHANGED <<sessionVars, rlVars, httpVars>>

\* self.inner.fee_rate_bps.clear().
ClearFeeRateBps(c) ==
    /\ lookups[c].pc = "clear_fee_rate_bps"
    /\ caches' = Cleared("fee_rate_bps")
    /\ lookups' = Overtaken(c, "fee_rate_bps", "clear_neg_risk")
    /\ UNCHANGED <<sessionVars, rlVars, httpVars>>

\* self.inner.neg_risk.clear(), and the call returns.
ClearNegRisk(c) ==
    /\ lookups[c].pc = "clear_neg_risk"
    /\ caches' = Cleared("neg_risk")
    /\ lookups' = Overtaken(c, "neg_risk", "idle")
    /\ UNCHANGED <<sessionVars, rlVars, httpVars>>

InitCache == InitSession /\ ~heartbeats /\ CacheIdle /\ LimiterIdle /\ HttpIdle

NextCache ==
    \/ \E c \in Callers, n \in CacheNames, k \in TokenIds : Lookup(c, n, k)
    \/ \E c \in Callers, v \in Values : FetchOk(c, v)
    \/ \E c \in Callers : FetchErr(c)
    \/ \E c \in Callers : Return(c)
    \/ \E c \in Callers : Invalidate(c)
    \/ \E c \in Callers : ClearFeeRateBps(c)
    \/ \E c \in Callers : ClearNegRisk(c)

SpecCache == InitCache /\ [][NextCache]_vars

----------------------------------------------------------------------------
(* Claims about the caches.                                                 *)

\* C7: two lookups of the same uncached key that overlap send at most one
\* request between them, insert at most once between them, and return the
\* same value.
C7_SingleFetch ==
    \A c \in Callers : \A d \in lookups[c].peers :
        /\ ~(lookups[c].fetched /\ lookups[d].fetched)
        /\ ~(lookups[c].inserted /\ lookups[d].inserted)
        /\ (/\ lookups[c].pc = "done" /\ lookups[d].pc = "done"
            /\ lookups[c].result # "Error" /\ lookups[d].result # "Error")
           => lookups[c].result = lookups[d].result

\* C20: invalidate_internal_caches clears the three maps as a unit. No
\* lookup is served from a map that a running invalidation has yet to clear
\* while that invalidation has already cleared another map, and when the
\* invalidation returns none of the three maps holds an entry, so that a
\* lookup starting then misses whichever map it reads.
C20_InvalidatedAsUnit ==
    [][/\ \A c, d \in Callers :
            (lookups[c].pc = "idle" /\ lookups'[c].pc = "done")
                => lookups'[c].cache \notin Uncleared(lookups[d].pc)
       /\ \A d \in Callers :
            (lookups[d].pc = "clear_neg_risk" /\ lookups'[d].pc = "idle")
                => caches' = EmptyCaches
      ]_vars

\* A step of an invalidate_internal_caches call that clears map n.
Clears(n) ==
    \E d \in Callers :
        \/ n = "tick_sizes" /\ lookups[d].pc = "idle" /\ lookups'[d].pc = "clear_fee_rate_bps"
        \/ n = "fee_rate_bps" /\ lookups[d].pc = "clear_fee_rate_bps"
                              /\ lookups'[d].pc = "clear_neg_risk"
        \/ n = "neg_risk" /\ lookups[d].pc = "clear_neg_risk" /\ lookups'[d].pc = "idle"

\* C31: a lookup that finds its key cached returns the cached value without
\* a request and without touching the maps; one that misses sends one
\* request; when the request succeeds the value is stored and returned; when
\* it fails the error is returned and the maps are as they were; and an
\* entry leaves a map only in a clearing step of invalidate_internal_caches.
C31_ReadThroughNeverExpires ==
    [][/\ \A c \in Callers :
            LET n == lookups'[c].cache
                k == lookups'[c].token_id
            IN  /\ (lookups[c].pc = "idle" /\ lookups'[c].pc = "done") =>
                        /\ caches[n][k] # None
                        /\ lookups'[c].result = caches[n][k]
                        /\ ~lookups'[c].fetched /\ ~lookups'[c].inserted
                        /\ caches' = caches
                /\ (lookups[c].pc = "idle" /\ lookups'[c].pc = "fetch") =>
                        /\ caches[n][k] = None
                        /\ lookups'[c].fetched
                        /\ caches' = caches
                /\ (lookups[c].pc = "fetch" /\ lookups'[c].pc # "fetch") =>
                        /\ lookups'[c].pc = "done"
                        /\ IF lookups'[c].result = "Error"
                           THEN ~lookups'[c].inserted /\ caches' = caches
                           ELSE /\ lookups'[c].inserted
                                /\ caches'[n][k] = lookups'[c].result
       /\ \A n \in CacheNames, k \in TokenIds :
            /\ (caches[n][k] # None /\ caches'[n][k] = None) => Clears(n)
            /\ (caches'[n][k] # None /\ caches'[n][k] # caches[n][k]) =>
                    \E c \in Callers :
                        /\ lookups[c].pc = "fetch" /\ lookups'[c].inserted
                        /\ lookups'[c].cache = n /\ lookups'[c].token_id = k
      ]_vars

\* C31, its case: a lookup has returned the error of its failed request and
\* its key is still uncached, while another entry is cached.
C31_FailedFetchStoredNothing ==
    \E c \in Callers :
        /\ lookups[c].pc = "done" /\ lookups[c].result = "Error"
        /\ caches[lookups[c].cache][lookups[c].token_id] = None
        /\ \E n \in CacheNames : caches[n]["t1"] # None

\* C32: inserts are first-writer-wins: a lookup that reaches its insert
\* when the key already holds a value (put there by a lookup that overlapped
\* it) leaves that value in the map.
C32_FirstWriterWins ==
    [][\A c \in Callers :
            (/\ lookups[c].pc = "fetch" /\ lookups'[c].inserted
             /\ caches[lookups[c].cache][lookups[c].token_id] # None)
            => caches'[lookups[c].cache][lookups[c].token_id] =
                    caches[lookups[c].cache][lookups[c].token_id]
      ]_vars

----------------------------------------------------------------------------
(* Rate-limit admission. check_spec joins three futures; its first poll     *)
(* runs each of them up to its first pending until_ready, and each pending  *)
(* until_ready completes on its own when its bucket has a cell.             *)

GateOf(key) ==
    CHOOSE g \in Gates \cup {ApiOnly(a, q) : a \in Apis, q \in ApiQuotas} : g.key = key

\* A get_or_create_limiter that makes a new limiter when the quota passed
\* is not the one the limiter was made with.
get_or_create_limiter_replaces(L, g) ==
    [n \in BucketNames |->
        IF /\ n \in EndpointBuckets(g) \cup ApiBuckets(g)
           /\ \/ ~L[n].created
              \/ Quota(L[n].count, L[n].period) # QuotaOf(g, n)
        THEN direct(QuotaOf(g, n))
        ELSE L[n]]

\* A get_or_create_limiter that makes a limiter of its own for every call.
get_or_create_limiter_per_call(L, g) ==
    [n \in BucketNames |->
        IF n \in EndpointBuckets(g) \cup ApiBuckets(g)
        THEN direct(QuotaOf(g, n))
        ELSE L[n]]

\* get_or_create_limiter for every limiter the gate looks up.
get_or_create_limiter(L, g) ==
    [n \in BucketNames |->
        IF n \in EndpointBuckets(g) \cup ApiBuckets(g) /\ ~L[n].created
        THEN direct(QuotaOf(g, n))
        ELSE L[n]]

\* The buckets of the gate's chain: endpoint, API, global.
Chain(g) ==
    EndpointBuckets(g) \cup ApiBuckets(g)
        \cup (IF global.created THEN {GlobalName} ELSE {})

BucketOf(L, n) == IF n = GlobalName THEN global ELSE L[n]

\* RateLimiter::check, and the first poll of until_ready: Ok takes a cell.
check(b) == b.cells > 0

TakeCell(b) == [b EXCEPT !.cells = @ - 1]

\* The MultiWindow match on (burst.check(), sustained.check()): the limiters
\* whose until_ready the call then awaits.
MultiWindowAwaits_both_unless_burst(key, burst_ok, sustained_ok) ==
    IF burst_ok THEN {} ELSE {SustainedKey(key), BurstKey(key)}

MultiWindowAwaits(key, burst_ok, sustained_ok) ==
    IF burst_ok THEN {}
    ELSE IF sustained_ok THEN {BurstKey(key)}
    ELSE {SustainedKey(key), BurstKey(key)}

\* start.elapsed() read when a check! returns.
Stamp(k) ==
    IF clock.on
    THEN [clock EXCEPT !.admitted = Append(@, [key |-> k, at |-> clock.now])]
    ELSE clock

\* check_spec up to the point where join! is pending or complete.
CheckSpec(c, g) ==
    LET L1 == get_or_create_limiter(limiters, g)
        Ok == {n \in Chain(g) : check(BucketOf(L1, n))}
        burst_ok == BurstKey(g.key) \in Ok
        sustained_ok == SustainedKey(g.key) \in Ok
        endpoint == IF g.quota.type = "Single" THEN {g.key} \ Ok
                    ELSE MultiWindowAwaits(g.key, burst_ok, sustained_ok)
        pending == endpoint \cup ((Chain(g) \ EndpointBuckets(g)) \ Ok)
    IN  /\ admissions[c].pc = "idle"
        /\ limiters' = [n \in BucketNames |->
                            IF n \in Ok THEN TakeCell(L1[n]) ELSE L1[n]]
        /\ global' = IF GlobalName \in Ok THEN TakeCell(global) ELSE global
        /\ admissions' = [admissions EXCEPT ![c] =
                [pc |-> IF pending = {} THEN "returned" ELSE "joined",
                 key |-> g.key, quota |-> g.api_quota,
                 waiting |-> pending, after |-> {}, awaited |-> pending,
                 taken |-> Ok,
                 burst_ready |-> burst_ok, sustained_ready |-> sustained_ok]]
        /\ clock' = IF pending = {} THEN Stamp(g.key) ELSE clock
        /\ UNCHANGED <<sessionVars, cacheVars, httpVars>>

\* check_api_limit up to its first pending await: the API limiter's
\* until_ready, and only after it the global limiter's.
check_api_limit(c, api, quota) ==
    LET g == ApiOnly(api, quota)
        L1 == get_or_create_limiter(limiters, g)
        api_ok == check(L1[ApiKey(api)])
        rest == IF global.created THEN {GlobalName} ELSE {}
        global_ok == api_ok /\ global.created /\ check(global)
        Ok == (IF api_ok THEN {ApiKey(api)} ELSE {})
                \cup (IF global_ok THEN {GlobalName} ELSE {})
        pending == IF ~api_ok THEN {ApiKey(api)} ELSE rest \ Ok
    IN  /\ limiters' = [n \in BucketNames |->
                            IF n \in Ok THEN TakeCell(L1[n]) ELSE L1[n]]
        /\ global' = IF global_ok THEN TakeCell(global) ELSE global
        /\ admissions' = [admissions EXCEPT ![c] =
                [pc |-> IF pending = {} THEN "returned" ELSE "joined",
                 key |-> api, quota |-> quota,
                 waiting |-> pending, after |-> IF api_ok THEN {} ELSE rest,
                 awaited |-> pending, taken |-> Ok,
                 burst_ready |-> FALSE, sustained_ready |-> FALSE]]
        /\ clock' = IF pending = {} THEN Stamp(api) ELSE clock

\* check!(self, api_only: api, quota: ..) of a caller with no call in
\* progress.
CheckApiLimit(c, api, quota) ==
    /\ admissions[c].pc = "idle"
    /\ check_api_limit(c, api, quota)
    /\ UNCHANGED <<sessionVars, cacheVars, httpVars>>

\* A pending until_ready gets its cell; join! returns with the last one. In
\* check_api_limit the global limiter's until_ready is polled next, and
\* takes its cell at once when there is one.
Ready(c, n) ==
    LET a == admissions[c]
        next == IF a.waiting = {n} THEN a.after ELSE {}
        now_ok == {m \in next : check(BucketOf(limiters, m))}
        left == (a.waiting \ {n}) \cup (next \ now_ok)
    IN  /\ a.pc = "joined"
        /\ n \in a.waiting
        /\ check(BucketOf(limiters, n))
        /\ limiters' = IF n = GlobalName THEN limiters
                       ELSE [limiters EXCEPT ![n] = TakeCell(@)]
        /\ global' = IF n = GlobalName \/ GlobalName \in now_ok
                     THEN TakeCell(global) ELSE global
        /\ admissions' = [admissions EXCEPT
                ![c].waiting = left,
                ![c].after = IF a.waiting = {n} THEN {} ELSE @,
                ![c].awaited = @ \cup next,
                ![c].taken = @ \cup {n} \cup now_ok,
                ![c].pc = IF left = {} THEN "returned" ELSE "joined"]
        /\ clock' = IF left = {} THEN Stamp(a.key) ELSE clock
        /\ UNCHANGED <<sessionVars, cacheVars, httpVars>>

\* The gated request goes out; the caller is free to call again.
Proceed(c) ==
    /\ admissions[c].pc = "returned"
    /\ admissions' = [admissions EXCEPT ![c] = NoAdmission]
    /\ UNCHANGED <<limiters, global, clock, sessionVars, cacheVars, httpVars>>

\* A bucket that never regains a cell.
Replenish_never(b) == b

\* A bucket that regains its whole count every period.
Replenish_count_per_period(b) ==
    IF ~b.created \/ b.cells = b.count THEN b
    ELSE IF b.elapsed + 1 = b.period
         THEN [b EXCEPT !.cells = b.count, !.elapsed = 0]
         ELSE [b EXCEPT !.elapsed = @ + 1]

\* One tick of the clock: a bucket that is not full regains one cell per
\* period.
Replenish(b) ==
    IF ~b.created \/ b.cells = b.count THEN b
    ELSE IF b.elapsed + 1 = b.period
         THEN [b EXCEPT !.cells = @ + 1, !.elapsed = 0]
         ELSE [b EXCEPT !.elapsed = @ + 1]

\* The call of caller c is parked in until_ready with no cell to be had.
CallerWaits(c) ==
    /\ admissions[c].pc = "joined"
    /\ \A n \in admissions[c].waiting : ~check(BucketOf(limiters, n))

\* The longest a timing test runs, in ticks.
MaxTime == 6

Tick ==
    /\ \/ Replenish(global) # global
       \/ \E n \in BucketNames : Replenish(limiters[n]) # limiters[n]
    /\ clock.on => clock.now < MaxTime
    /\ limiters' = [n \in BucketNames |-> Replenish(limiters[n])]
    /\ global' = Replenish(global)
    /\ clock' = IF clock.on
                THEN [clock EXCEPT !.now = @ + 1, !.rapid = @ /\ CallerWaits(1)]
                ELSE clock
    /\ UNCHANGED <<admissions, sessionVars, cacheVars, httpVars>>

InitRL ==
    /\ InitSession /\ ~heartbeats
    /\ CacheIdle
    /\ HttpIdle
    /\ RateLimiters_new \/ with_global(Quota(1, 1))
    /\ admissions = [c \in Admitters |-> NoAdmission]
    /\ clock = NoClock

NextRL ==
    \/ \E c \in Admitters, g \in Gates : CheckSpec(c, g)
    \/ \E c \in Admitters, n \in BucketNames \cup {GlobalName} : Ready(c, n)
    \/ \E c \in Admitters : Proceed(c)
    \/ Tick

SpecRL == InitRL /\ [][NextRL]_vars

----------------------------------------------------------------------------
(* check_api_limit calls next to check_spec calls of a Single gate: the     *)
(* API limiter is named with one quota or another.                          *)

NextApi ==
    \/ \E c \in Admitters, g \in Gates : g.quota.type = "Single" /\ CheckSpec(c, g)
    \/ \E c \in Admitters, a \in Apis, q \in ApiQuotas : CheckApiLimit(c, a, q)
    \/ \E c \in Admitters, n \in BucketNames \cup {GlobalName} : Ready(c, n)
    \/ \E c \in Admitters : Proceed(c)
    \/ Tick

SpecApi == InitRL /\ [][NextApi]_vars

\* Time advances, and a parked until_ready whose limiter has a cell again
\* and again is woken to take one.
FairRL ==
    /\ WF_vars(Tick)
    /\ \A c \in Admitters :
            SF_vars(\E n \in BucketNames \cup {GlobalName} : Ready(c, n))

SpecApiFair == SpecApi /\ FairRL

----------------------------------------------------------------------------
(* The call sites of one API: check_api_limit calls naming it next to       *)
(* check_spec calls of an endpoint of it that pass an API quota.            *)

NextShared ==
    \/ \E c \in Admitters, g \in Gates : g.api_quota # NoQuota /\ CheckSpec(c, g)
    \/ \E c \in Admitters, a \in Apis, q \in ApiQuotas : CheckApiLimit(c, a, q)
    \/ \E c \in Admitters, n \in BucketNames \cup {GlobalName} : Ready(c, n)
    \/ \E c \in Admitters : Proceed(c)
    \/ Tick

SpecShared == InitRL /\ [][NextShared]_vars

----------------------------------------------------------------------------
(* The Data API client (data/client.rs): an operation with an endpoint      *)
(* quota runs check!(key: ..) and then calls get, which runs               *)
(* check!(api_only: "data") and sends the request; an operation without     *)
(* one calls get directly.                                                  *)

\* health has an endpoint quota (as positions, trades, closed_positions);
\* activity has none (as holders, value).
DataOperations == {"health", "activity"}

DataKey(op) == IF op = "health" THEN "data_health" ELSE None

\* The quota get passes for the whole API.
DataApiQuota == Quota(2, 1)

\* A Data operation in progress: the caller, the cells its endpoint check
\* and its API check took, and the requests sent.
DataCall(c, op, endpoint_check) ==
    [op |-> op, by |-> c, pc |-> "get", endpoint_check |-> endpoint_check,
     api_check |-> {}, sends |-> 0]

\* The operation's own check!(key: ..) is an ordinary check_spec call
\* (CheckSpec); Client::get starts when it has returned, or at once for an
\* operation without endpoint quota, and calls check_api_limit.
DataGet(c, op) ==
    /\ http = NoExchange
    /\ IF DataKey(op) = None
       THEN admissions[c].pc = "idle"
       ELSE admissions[c].pc = "returned" /\ admissions[c].key = DataKey(op)
    /\ check_api_limit(c, "data", DataApiQuota)
    /\ http' = DataCall(c, op, admissions[c].taken)
    /\ UNCHANGED <<stream, sessionVars, cacheVars>>

\* crate::request(&self.client, request, None) once check_api_limit has
\* returned.
DataRequest(c) ==
    /\ http # NoExchange /\ http.by = c /\ http.pc = "get"
    /\ admissions[c].pc = "returned"
    /\ http' = [http EXCEPT !.pc = "sent", !.sends = @ + 1,
                            !.api_check = admissions[c].taken]
    /\ admissions' = [admissions EXCEPT ![c] = NoAdmission]
    /\ UNCHANGED <<limiters, global, clock, stream, sessionVars, cacheVars>>

\* The operation returns the response.
DataReturn(c) ==
    /\ http # NoExchange /\ http.by = c /\ http.pc = "sent"
    /\ http' = NoExchange
    /\ UNCHANGED <<rlVars, stream, sessionVars, cacheVars>>

NextData ==
    \/ \E c \in Admitters, op \in DataOperations :
            /\ http = NoExchange /\ DataKey(op) # None
            /\ CheckSpec(c, GateOf(DataKey(op)))
    \/ \E c \in Admitters, op \in DataOperations : DataGet(c, op)
    \/ \E c \in Admitters, n \in BucketNames \cup {GlobalName} : Ready(c, n)
    \/ \E c \in Admitters : DataRequest(c)
    \/ \E c \in Admitters : DataReturn(c)
    \/ Tick

SpecData == InitRL /\ [][NextData]_vars

----------------------------------------------------------------------------
(* A timing test (tests/rate_limit.rs): one task calls check! in a loop and *)
(* reads the clock after each call. The task may also pause between calls.  *)

\* The number of calls of the test's loop.
MaxCalls == 5

InitTiming ==
    /\ InitSession /\ ~heartbeats /\ inner.config = "default"
    /\ CacheIdle
    /\ HttpIdle
    /\ RateLimiters_new \/ with_global(Quota(1, 1))
    /\ admissions = [c \in Admitters |-> NoAdmission]
    /\ clock = [NoClock EXCEPT !.on = TRUE]

NextTiming ==
    \/ \E g \in Gates : Len(clock.admitted) < MaxCalls /\ CheckSpec(1, g)
    \/ \E n \in BucketNames \cup {GlobalName} : Ready(1, n)
    \/ Proceed(1)
    \/ Tick

SpecTiming == InitTiming /\ [][NextTiming]_vars

\* The calls so far all went through the Single gate g, one right after the
\* other, with no global limiter.
C21_RapidOn(g) ==
    /\ clock.on /\ clock.rapid
    /\ ~global.created
    /\ g.quota.type = "Single" /\ g.api_quota = NoQuota
    /\ \A i \in 1..Len(clock.admitted) : clock.admitted[i].key = g.key

C22_CountPerPeriod ==
    /\ \A n \in BucketNames : limiters[n].cells <= limiters[n].count
    /\ \A g \in Gates : C21_RapidOn(g) =>
        \A i \in 1..Len(clock.admitted) :
            i + g.quota.single.count <= Len(clock.admitted) =>
                clock.admitted[i + g.quota.single.count].at - clock.admitted[i].at
                    = g.quota.single.period

----------------------------------------------------------------------------
(* One client through its whole life, with the keep-alive and the caches:   *)
(* the user holds a single Client, fills the caches through it and takes it *)
(* through authenticate, deauthenticate and promote_to_builder. A lookup     *)
(* borrows the Client, so a transition (which consumes it) starts only when *)
(* no lookup is in progress.                                                *)

\* The builders of this specification: a signer on POLYGON with explicit
\* credentials, with and without funder, signature type and salt generator.
FrameInputs ==
    {in \in AuthInputs :
        /\ in.chain_id = "POLYGON"
        /\ in.credentials # None /\ in.nonce = None
        /\ in.funder \in {None, "F1"}
        /\ in.signature_type \in {None, "Proxy"}}

\* The server of this specification answers no ping.
FrameAnswers == {"Err"}

LookupsIdle == \A c \in Callers : lookups[c].pc = "idle"

Borrowable == \E h \in Handles : handles[h].st = "idle"

InitFrame == InitSession /\ heartbeats /\ CacheIdle /\ LimiterIdle /\ HttpIdle

NextFrame ==
    \/ \E h \in Handles : LookupsIdle /\ New(h)
    \/ \E h \in Handles : LookupsIdle /\ AuthenticateWith(h, FrameInputs)
    \/ \E h \in Handles : LookupsIdle /\ Deauthenticate(h)
    \/ \E h \in Handles : LookupsIdle /\ PromoteToBuilder(h)
    \/ \E h \in Handles : LookupsIdle /\ StartHeartbeats(h)
    \/ \E h \in Handles : LookupsIdle /\ StopHeartbeats(h)
    \/ \E h \in Handles : Resume(h)
    \/ \E h \in Handles : ResumeStop(h)
    \/ \E t \in Tasks : TaskTick(t)
    \/ \E t \in Tasks : TaskPosted(t, FrameAnswers)
    \/ \E t \in Tasks : TaskSend(t)
    \/ \E t \in Tasks : TaskRelease(t)
    \/ \E n \in CacheNames, k \in TokenIds : Borrowable /\ Lookup(1, n, k)
    \/ \E v \in Values : FetchOk(1, v)
    \/ Return(1)

SpecFrame == InitFrame /\ [][NextFrame]_vars

----------------------------------------------------------------------------
(* Claims about what the transitions keep and what they reset.              *)

Demoted ==
    /\ inner.state = "Authenticated"
    /\ inner'.state = "Unauthenticated"
    /\ last'.op = "deauthenticate" /\ last'.res = "Ok"

\* C13: a successful deauthenticate leaves no keep-alive task running and no
\* token on the returned Client, resets funder, signature type and salt
\* generator to None, Eoa and generate_seed whatever they were, and keeps
\* host, config and the three caches.
C13_DemoteResetsOrderParameters ==
    [][Demoted =>
        /\ \A t \in Tasks : tasks'[t].pc \in {"unused", "done"}
        /\ \A h \in Handles : handles'[h].tok = 0
        /\ inner'.funder = None
        /\ inner'.signature_type = "Eoa"
        /\ inner'.salt_generator = "generate_seed"
        /\ inner'.address = None /\ inner'.credentials = None
        /\ inner'.host = inner.host
        /\ inner'.config = inner.config
        /\ caches' = caches]_vars

\* C13, its case: a session with a funder, the Proxy scheme and a custom salt
\* generator, its keep-alive awaited to its end, has been demoted with all
\* three caches filled and a custom Config.
C13_DemotedWithFilledCaches ==
    /\ last.op = "deauthenticate" /\ last.res = "Ok"
    /\ last.waited # 0
    /\ last.in.funder = "F1" /\ last.in.signature_type = "Proxy"
    /\ last.in.salt_generator = "custom"
    /\ inner.state = "Unauthenticated" /\ inner.funder = None
    /\ inner.config = "custom"
    /\ \A n \in CacheNames : \E k \in TokenIds : caches[n][k] # None

Promoted ==
    /\ inner.state = "Authenticated" /\ inner.kind = "Normal"
    /\ inner'.kind = "Builder"
    /\ last'.op = "promote_to_builder" /\ last'.res = "Ok"

\* C14: a successful promote_to_builder changes the kind to Builder with the
\* supplied BuilderConfig and nothing else of the ClientInner (address,
\* credentials, funder, signature type, salt generator, host, config), keeps
\* the three caches, and leaves exactly one keep-alive task running, the one
\* the returned Client holds the token of; every earlier task had ended
\* before that one was spawned.
C14_PromoteChangesOnlyKind ==
    [][Promoted =>
        /\ inner' = [inner EXCEPT !.kind = "Builder", !.builder_config = BuilderConfig]
        /\ inner'.state = "Authenticated"
        /\ inner'.address = inner.address /\ inner'.credentials = inner.credentials
        /\ inner'.funder = inner.funder
        /\ inner'.signature_type = inner.signature_type
        /\ inner'.salt_generator = inner.salt_generator
        /\ inner'.host = inner.host /\ inner'.config = inner.config
        /\ caches' = caches
        /\ \E t \in Tasks :
              /\ {u \in Tasks : tasks'[u].pc \in {"select", "posting"}} = {t}
              /\ ~tasks'[t].cancelled
              /\ \E h \in Handles : handles'[h] = IdleHandle(t)
              /\ \A u \in Tasks \ {t} : tasks'[u].pc \in {"unused", "done"}
        /\ \A u \in Tasks : tasks[u].pc \in {"unused", "done"}]_vars

\* C14, its case: a Normal session with a funder, the Proxy scheme, a custom
\* salt generator and filled caches has been promoted after its keep-alive
\* was awaited to its end, and a new keep-alive task runs.
C14_PromotedWithNewKeepAlive ==
    /\ last.op = "promote_to_builder" /\ last.res = "Ok"
    /\ last.waited # 0
    /\ inner.kind = "Builder" /\ inner.builder_config = BuilderConfig
    /\ inner.funder = "F1" /\ inner.signature_type = "Proxy"
    /\ inner.salt_generator = "custom" /\ inner.config = "custom"
    /\ \A n \in CacheNames : \E k \in TokenIds : caches[n][k] # None
    /\ \E t \in Tasks : Running(t) /\ \E h \in Handles : handles[h] = IdleHandle(t)

----------------------------------------------------------------------------
(* Client::sign. The call reads the order's negative-risk flag through the  *)
(* neg_risk cache (its only await on the client's state), then builds the   *)
(* EIP-712 domain and asks the signer for a signature.                      *)

ORDER_NAME == "Polymarket CTF Exchange"
VERSION == "1"

\* The signers handed to sign: any chain id, and whether sign_hash succeeds.
OrderSigners == [address : Signers, chain_id : ChainIds, sign_hash : {"ok", "err"}]

Orders ==
    [tokenId : TokenIds, maker : Signers, makerAmount : {1, 2}, takerAmount : {1},
     side : {"Buy", "Sell"}]

SignableOrders ==
    [order : Orders, order_type : {"GTC", "FOK"},
     post_only : {None, "Some(false)", "Some(true)"}]

\* The flag of a NegRiskResponse: of the two answers the server gives, "v2"
\* is the negative-risk one.
NegRisk(response) == response = "v2"

\* Credentials::key.
key(credentials) == "key:" \o credentials

\* contract_config: the exchange contract of a chain and market category,
\* when there is one.
contract_config(chain_id, neg_risk) ==
    IF chain_id \in {"POLYGON", "AMOY"}
    THEN [found |-> TRUE,
          exchange |-> IF neg_risk THEN "neg_risk_exchange@" \o chain_id
                       ELSE "exchange@" \o chain_id]
    ELSE [found |-> FALSE, exchange |-> None]

Eip712Domain(chain_id, exchange) ==
    [name |-> ORDER_NAME, version |-> VERSION, chain_id |-> chain_id,
     verifying_contract |-> exchange]

NoDomain == Eip712Domain(None, None)

NoSignedOrder ==
    [order |-> None, signature |-> None, order_type |-> None, owner |-> None,
     post_only |-> None]

\* What a sign call comes to: its result, whether sign_hash was called, and
\* the domain and SignedOrder it got to.
SignResult(res, asked, domain, signed) ==
    [res |-> res, asked |-> asked, domain |-> domain, signed |-> signed]

\* A sign that takes the exchange contract of the ordinary markets whatever
\* the flag.
sign_ignores_neg_risk(credentials, neg_risk, signer, signable) ==
    IF neg_risk = "Error" THEN SignResult("Error", FALSE, NoDomain, NoSignedOrder)
    ELSE IF signer.chain_id = None
    THEN SignResult("panic", FALSE, NoDomain, NoSignedOrder)
    ELSE LET config == contract_config(signer.chain_id, FALSE)
             domain == Eip712Domain(signer.chain_id, config.exchange)
         IN  IF ~config.found
             THEN SignResult("MissingContractConfig", FALSE, NoDomain, NoSignedOrder)
             ELSE IF signer.sign_hash = "err"
             THEN SignResult("Error", TRUE, domain, NoSignedOrder)
             ELSE SignResult("Ok", TRUE, domain,
                    [order |-> signable.order,
                     signature |-> [by |-> signer.address,
                                    hash |-> <<signable.order, domain>>],
                     order_type |-> signable.order_type,
                     owner |-> key(credentials),
                     post_only |-> signable.post_only])

\* A sign that names the signer as owner and drops the post-only flag.
sign_owner_is_signer(credentials, neg_risk, signer, signable) ==
    IF neg_risk = "Error" THEN SignResult("Error", FALSE, NoDomain, NoSignedOrder)
    ELSE IF signer.chain_id = None
    THEN SignResult("panic", FALSE, NoDomain, NoSignedOrder)
    ELSE LET config == contract_config(signer.chain_id, NegRisk(neg_risk))
             domain == Eip712Domain(signer.chain_id, config.exchange)
         IN  IF ~config.found
             THEN SignResult("MissingContractConfig", FALSE, NoDomain, NoSignedOrder)
             ELSE IF signer.sign_hash = "err"
             THEN SignResult("Error", TRUE, domain, NoSignedOrder)
             ELSE SignResult("Ok", TRUE, domain,
                    [order |-> signable.order,
                     signature |-> [by |-> signer.address,
                                    hash |-> <<signable.order, domain>>],
                     order_type |-> signable.order_type,
                     owner |-> signer.address,
                     post_only |-> None])

\* Client::sign after `self.neg_risk(&token_id).await`: `?` on the lookup,
\* expect on the signer's chain id, contract_config(..).ok_or(..)?, the
\* domain, sign_hash(..).await?, and the SignedOrder.
sign(credentials, neg_risk, signer, signable) ==
    IF neg_risk = "Error" THEN SignResult("Error", FALSE, NoDomain, NoSignedOrder)
    ELSE IF signer.chain_id = None
    THEN SignResult("panic", FALSE, NoDomain, NoSignedOrder)
    ELSE LET config == contract_config(signer.chain_id, NegRisk(neg_risk))
             domain == Eip712Domain(signer.chain_id, config.exchange)
         IN  IF ~config.found
             THEN SignResult("MissingContractConfig", FALSE, NoDomain, NoSignedOrder)
             ELSE IF signer.sign_hash = "err"
             THEN SignResult("Error", TRUE, domain, NoSignedOrder)
             ELSE SignResult("Ok", TRUE, domain,
                    [order |-> signable.order,
                     signature |-> [by |-> signer.address,
                                    hash |-> <<signable.order, domain>>],
                     order_type |-> signable.order_type,
                     owner |-> key(credentials),
                     post_only |-> signable.post_only])

\* sign up to the await in neg_risk: the lookup of the order's token.
SignNegRisk(h, c, k) ==
    /\ handles[h].st = "idle"
    /\ inner.state = "Authenticated"
    /\ Lookup(c, "neg_risk", k)

\* The rest of sign, once neg_risk has returned. The signer and the order's
\* other fields are only read from here on, so they are drawn here.
Sign(h, c) ==
    /\ handles[h].st = "idle"
    /\ inner.state = "Authenticated"
    /\ lookups[c].pc = "done" /\ lookups[c].cache = "neg_risk"
    /\ \E signer \in OrderSigners, signable \in SignableOrders :
        /\ signable.order.tokenId = lookups[c].token_id
        /\ LET r == sign(inner.credentials, lookups[c].result, signer, signable)
           IN  last' = [Report("sign", r.res, OtherUsers(h), 0, FALSE)
                           EXCEPT !.in = [signer |-> signer, signable |-> signable,
                                          neg_risk |-> lookups[c].result],
                                  !.credentials = inner.credentials,
                                  !.out = r]
    /\ lookups' = [d \in Callers |->
            IF d = c THEN NoLookup
            ELSE [lookups[d] EXCEPT !.peers = @ \ {c}]]
    /\ UNCHANGED <<heartbeats, inner, handles, tasks>>
    /\ UNCHANGED <<caches, rlVars, httpVars>>

\* The builders of this specification: a signer on a supported chain with
\* explicit credentials and the default order parameters.
SignInputs ==
    {in \in AuthInputs :
        /\ in.chain_id \in {"POLYGON", "AMOY"}
        /\ in.credentials # None /\ in.nonce = None
        /\ in.funder = None /\ in.signature_type = None
        /\ in.salt_generator = None}

InitSign == InitElevate

\* Caller 1 signs; caller 2 calls neg_risk on its own.
NextSign ==
    \/ \E h \in Handles : LookupsIdle /\ NewDefault(h)
    \/ \E h \in Handles : LookupsIdle /\ AuthenticateWith(h, SignInputs)
    \/ \E h \in Handles : LookupsIdle /\ Deauthenticate(h)
    \/ \E h \in Handles : LookupsIdle /\ Drop(h)
    \/ \E h \in Handles, k \in TokenIds : SignNegRisk(h, 1, k)
    \/ \E h \in Handles : Sign(h, 1)
    \/ \E k \in TokenIds : Borrowable /\ Lookup(2, "neg_risk", k)
    \/ \E c \in Callers, v \in Values : FetchOk(c, v)
    \/ \E c \in Callers : FetchErr(c)
    \/ Return(2)

SpecSign == InitSign /\ [][NextSign]_vars

----------------------------------------------------------------------------
(* Claims about sign.                                                       *)

Signed == last.op = "sign"

\* The registry entry for the signer's chain id and the flag that neg_risk
\* returned to this sign call.
C17_Entry == contract_config(last.in.signer.chain_id, NegRisk(last.in.neg_risk))

\* C17: sign looks the domain up per order. Whenever the signer is asked to
\* sign, the domain carries the signer's chain id and, as verifying
\* contract, the registry entry for that chain id and the flag the
\* read-through neg_risk lookup returned for the order's token, and the
\* hash signed is the order's under that domain; when the registry has no
\* entry for the signer's chain id and that flag, sign returns the
\* missing-contract-configuration error and the signer is not asked.
C17_DomainPerOrder ==
    (Signed /\ last.in.neg_risk # "Error") =>
        /\ last.out.asked =>
            /\ C17_Entry.found
            /\ last.out.domain =
                  Eip712Domain(last.in.signer.chain_id, C17_Entry.exchange)
        /\ last.res = "Ok" =>
            /\ last.out.asked
            /\ last.out.signed.signature.hash =
                  <<last.in.signable.order, last.out.domain>>
        /\ (last.in.signer.chain_id # None /\ ~C17_Entry.found) =>
            /\ last.res = "MissingContractConfig"
            /\ ~last.out.asked

\* A negative-risk order signed, and an order refused for a chain without
\* exchange contract, are both reached: here the first.
C17_SignedNegRiskOrder ==
    /\ Signed /\ last.res = "Ok"
    /\ NegRisk(last.in.neg_risk)
    /\ last.out.domain.verifying_contract = "neg_risk_exchange@AMOY"

\* C18: a SignedOrder carries the order it was made from, field by field,
\* the order type and the post-only flag of the SignableOrder, and the key
\* of the session's credentials as owner.
C18_OrderUntouched ==
    (Signed /\ last.res = "Ok") =>
        /\ \A f \in DOMAIN last.in.signable.order :
                last.out.signed.order[f] = last.in.signable.order[f]
        /\ DOMAIN last.out.signed.order = DOMAIN last.in.signable.order
        /\ last.out.signed.order_type = last.in.signable.order_type
        /\ last.out.signed.post_only = last.in.signable.post_only
        /\ last.out.signed.owner = key(inner.credentials)
        /\ last.out.signed.owner = key(last.credentials)

C18_SignedPostOnlySell ==
    /\ Signed /\ last.res = "Ok"
    /\ last.in.signable.order.side = "Sell"
    /\ last.in.signable.order.makerAmount = 2
    /\ last.in.signable.order_type = "FOK"
    /\ last.in.signable.post_only = "Some(true)"

\* C19: sign never panics: whatever the signer, with a chain id or without
\* one, the call returns a SignedOrder or an error value.
C19_SignNeverPanics ==
    Signed => last.res \in {"Ok", "Error", "MissingContractConfig"}

----------------------------------------------------------------------------
(* Claims about rate-limit admission.                                       *)

Returned(c) == admissions[c].pc = "returned"

IsMultiWindow(c) ==
    /\ admissions[c].pc # "idle"
    /\ GateOf(admissions[c].key).quota.type = "MultiWindow"

\* C3: check_spec returns only after a cell has been taken from every bucket
\* of the gate's chain: the endpoint bucket or buckets, the API bucket when
\* the gate has an API quota, the global bucket when one is configured.
C3_CellFromEveryBucket ==
    \A c \in Admitters :
        Returned(c) => Chain(GateOf(admissions[c].key)) \subseteq admissions[c].taken

C5_BothLimitsSatisfied ==
    \A c \in Admitters :
        (IsMultiWindow(c) /\ Returned(c))
            => /\ BurstKey(admissions[c].key) \in admissions[c].taken
               /\ SustainedKey(admissions[c].key) \in admissions[c].taken

\* The Spec a call in progress was made with.
CalledSpec(a) == IF a.key \in Apis THEN ApiOnly(a.key, a.quota) ELSE GateOf(a.key)

C33_WaitsStartedTogether ==
    \A c \in Admitters :
        admissions[c].pc = "joined" => admissions[c].after = {}

\* C34: the API-level bucket is shared by all call sites of one API. Every
\* check_api_limit naming the API and every check_spec with an API quota
\* for an endpoint of it draws from the one bucket of that API: a call
\* that finds it with a cell takes that cell, a call that finds it empty
\* is parked on it whatever call site emptied it, and no call returns
\* without a cell from it.
C34_ApiBucketShared ==
    /\ [](\A c \in Admitters :
            (Returned(c) /\ ApiBuckets(CalledSpec(admissions[c])) # {})
                => ApiKey(admissions[c].key) \in admissions[c].taken)
    /\ [][\A c \in Admitters :
            (admissions[c].pc = "idle" /\ admissions'[c].pc # "idle"
                /\ ApiBuckets(CalledSpec(admissions'[c])) # {}) =>
                LET b == admissions'[c]
                    n == ApiKey(b.key)
                IN  /\ limiters'[n].created
                    /\ (limiters[n].created /\ limiters[n].cells > 0) =>
                            /\ n \in b.taken
                            /\ limiters'[n].cells = limiters[n].cells - 1
                    /\ (limiters[n].created /\ limiters[n].cells = 0) =>
                            /\ b.pc = "joined"
                            /\ n \in b.waiting
                            /\ n \notin b.taken
                            /\ limiters'[n].cells = 0
       ]_vars

\* A check_spec of an endpoint is parked on the API bucket that a
\* check_api_limit made and emptied.
C34_ParkedOnBucketOfOtherSite ==
    \E c \in Admitters :
        /\ admissions[c].pc = "joined"
        /\ admissions[c].key \notin Apis
        /\ ApiKey(admissions[c].key) \in admissions[c].waiting
        /\ Quota(limiters[ApiKey(admissions[c].key)].count,
                 limiters[ApiKey(admissions[c].key)].period)
                # admissions[c].quota

\* The cells a Data operation took from bucket n in its two checks.
DataTokens(n) ==
    (IF n \in http.endpoint_check THEN 1 ELSE 0)
        + (IF n \in http.api_check THEN 1 ELSE 0)

\* C35: a Data API operation sends its request only after admission and
\* has then consumed exactly one cell from each bucket that applies: one
\* from the data API bucket, one from its endpoint bucket when it has one,
\* one from the global bucket when one is configured, and none elsewhere.
C35_OneTokenPerBucket ==
    (http # NoExchange /\ http.sends > 0) =>
        /\ http.sends = 1
        /\ \A n \in BucketNames \cup {GlobalName} :
                DataTokens(n) =
                    IF \/ n = ApiKey("data")
                       \/ n = DataKey(http.op)
                       \/ n = GlobalName /\ global.created
                    THEN 1 ELSE 0

----------------------------------------------------------------------------
(* Client::stream_data: the pages of a paginated endpoint as one Stream.    *)

\* The pages a stream may be served.
MaxPages == 3

Items == {"a", "b"}
Cursors == {"MQ==", "Mg=="}

\* Page<Data>: its data and its next_cursor.
Pages ==
    [data : {<<>>, <<"a">>, <<"b", "a">>}, next_cursor : Cursors \cup {TERMINAL_CURSOR}]

\* stream_data is called and the Stream polled: `cursor` starts as None.
StreamData ==
    /\ stream.pc = "idle"
    /\ stream' = [NoStream EXCEPT !.pc = "call"]
    /\ UNCHANGED <<sessionVars, cacheVars, rlVars, http>>

\* `call(self, mem::take(&mut cursor))`: the request goes out with the
\* cursor, which is left None.
StreamCall ==
    /\ stream.pc = "call"
    /\ Len(stream.calls) < MaxPages
    /\ stream' = [stream EXCEPT !.pc = "await",
                                !.calls = Append(@, stream.cursor),
                                !.cursor = None]
    /\ UNCHANGED <<sessionVars, cacheVars, rlVars, http>>

\* `.await?` when the call resolves to a page.
StreamPage(page) ==
    /\ stream.pc = "await"
    /\ stream' = [stream EXCEPT !.pc = "yield",
                                !.pending = page.data,
                                !.next_cursor = page.next_cursor,
                                !.pages = Append(@, page)]
    /\ UNCHANGED <<sessionVars, cacheVars, rlVars, http>>

\* `.await?` when the call resolves to an error: it is yielded and ends
\* the stream.
StreamError ==
    /\ stream.pc = "await"
    /\ stream' = [stream EXCEPT !.pc = "ended", !.end = "Err"]
    /\ UNCHANGED <<sessionVars, cacheVars, rlVars, http>>

\* `for item in page.data { yield item }`: the next item is yielded.
StreamYield ==
    /\ stream.pc = "yield"
    /\ stream.pending # <<>>
    /\ stream' = [stream EXCEPT !.pending = Tail(@),
                                !.yielded = Append(@, Head(stream.pending))]
    /\ UNCHANGED <<sessionVars, cacheVars, rlVars, http>>

\* A stream that also ends on a page without data.
StreamAdvance_ends_on_empty_page ==
    /\ stream.pc = "yield"
    /\ stream.pending = <<>>
    /\ IF stream.next_cursor = TERMINAL_CURSOR \/ stream.pages[Len(stream.pages)].data = <<>>
       THEN stream' = [stream EXCEPT !.pc = "ended", !.end = "Done"]
       ELSE stream' = [stream EXCEPT !.pc = "call",
                                     !.cursor = stream.next_cursor]
    /\ UNCHANGED <<sessionVars, cacheVars, rlVars, http>>

\* A stream that requests the page after the terminal cursor as well.
StreamAdvance_follows_terminal ==
    /\ stream.pc = "yield"
    /\ stream.pending = <<>>
    /\ stream' = [stream EXCEPT !.pc = "call", !.cursor = stream.next_cursor]
    /\ UNCHANGED <<sessionVars, cacheVars, rlVars, http>>

\* The page is exhausted: `break` on the terminal cursor, else
\* `cursor = Some(page.next_cursor)` and the loop goes round.
StreamAdvance ==
    /\ stream.pc = "yield"
    /\ stream.pending = <<>>
    /\ IF stream.next_cursor = TERMINAL_CURSOR
       THEN stream' = [stream EXCEPT !.pc = "ended", !.end = "Done"]
       ELSE stream' = [stream EXCEPT !.pc = "call",
                                     !.cursor = stream.next_cursor]
    /\ UNCHANGED <<sessionVars, cacheVars, rlVars, http>>

InitStream == InitCache

NextStream ==
    \/ StreamData
    \/ StreamCall
    \/ \E page \in Pages : StreamPage(page)
    \/ StreamError
    \/ StreamYield
    \/ StreamAdvance

SpecStream == InitStream /\ [][NextStream]_vars

\* The data of the pages ps, one after another.
RECURSIVE Flatten(_)
Flatten(ps) == IF ps = <<>> THEN <<>> ELSE Head(ps).data \o Flatten(Tail(ps))

\* s without its last n elements.
DropLast(s, n) == SubSeq(s, 1, Len(s) - n)

\* C25: stream_data requests its pages strictly one after another, the
\* first without a cursor and each later one with the next_cursor of the page
\* before it; it yields every item of every page in order; it never makes a
\* request after a page whose next_cursor is the terminal cursor, and it ends
\* without an error exactly when that page has been yielded in full.
C25_PagesInOrderUntilTerminal ==
    LET calls == stream.calls
        pages == stream.pages
        outstanding == Len(calls) - Len(pages)
    IN  /\ outstanding \in {0, 1}
        /\ outstanding = 1 <=> stream.pc = "await" \/ stream.end = "Err"
        /\ \A i \in 1..Len(calls) :
                calls[i] = IF i = 1 THEN None ELSE pages[i - 1].next_cursor
        /\ \A i \in 1..Len(pages) :
                i < Len(calls) => pages[i].next_cursor # TERMINAL_CURSOR
        /\ stream.yielded = DropLast(Flatten(pages), Len(stream.pending))
        /\ stream.end = "Done" <=>
                /\ pages # <<>>
                /\ pages[Len(pages)].next_cursor = TERMINAL_CURSOR
                /\ stream.yielded = Flatten(pages)
                /\ stream.pc # "yield"
        /\ stream.pc = "ended" <=> stream.end # None

\* C25, its case: a stream that went through three pages, the second
\* without data, and ended on the terminal cursor with every item yielded.
C25_ThreePagesYielded ==
    /\ stream.end = "Done"
    /\ Len(stream.pages) = 3
    /\ stream.pages[2].data = <<>>
    /\ stream.calls = <<None, "MQ==", "Mg==">>
    /\ stream.yielded = <<"b", "a", "a">>

----------------------------------------------------------------------------
(* The operations that execute a request themselves: rfq::Client::request   *)
(* and request_text, and Client::delete_notifications.                      *)

\* What the transport answers: nothing (the execute fails), or a status and
\* a body.
Statuses == {200, 204, 400, 404, 500}
Bodies == {"", "null", "{\"ok\":1}", "Invalid request parameters"}
Responses == [received : BOOLEAN, status : Statuses, body : Bodies]

\* StatusCode::is_success.
is_success(status) == 200 <= status /\ status < 300

\* serde_json on a body read as Option<Response>.
Json(body) ==
    CASE body = "null" -> [ok |-> TRUE, value |-> None]
      [] body = "{\"ok\":1}" -> [ok |-> TRUE, value |-> body]
      [] OTHER -> [ok |-> FALSE, value |-> None]

\* Result<_>: Ok, Error::status(status, method, path, message), or the
\* reqwest error a `?` converts.
OkResult(value) ==
    [kind |-> "Ok", status |-> 0, method |-> None, path |-> None, message |-> None,
     value |-> value]
StatusError(status, method, path, message) ==
    [kind |-> "Status", status |-> status, method |-> method, path |-> path,
     message |-> message, value |-> None]
InternalError ==
    [kind |-> "Internal", status |-> 0, method |-> None, path |-> None,
     message |-> None, value |-> None]

\* rfq::Client::request.
request(method, path, response) ==
    IF ~response.received THEN InternalError
    ELSE IF ~is_success(response.status)
    THEN StatusError(response.status, method, path, response.body)
    ELSE IF ~Json(response.body).ok THEN InternalError
    ELSE IF Json(response.body).value # None THEN OkResult(Json(response.body).value)
    ELSE StatusError(404, method, path, "Unable to find requested resource")

\* rfq::Client::request_text.
request_text(method, path, response) ==
    IF ~response.received THEN InternalError
    ELSE IF ~is_success(response.status)
    THEN StatusError(response.status, method, path, response.body)
    ELSE OkResult("()")

\* `self.client().execute(request).await?; Ok(())` of delete_notifications.
execute_only(method, path, response) ==
    IF ~response.received THEN InternalError ELSE OkResult("()")

\* The operations of the model, with the helper each one sends through.
RfqOperations ==
    {[op |-> "create_request", method |-> "POST", path |-> "/rfq/request",
      via |-> "request"],
     [op |-> "cancel_request", method |-> "DELETE", path |-> "/rfq/request",
      via |-> "request_text"]}

\* The Credentials an rfq::Client was built with.
RfqCredentials == "explicit"

\* An executed request: who built it, what it carried, how often it was
\* sent, what came back and what the operation returned.
Exchange(o, headers, by, response, result) ==
    [op |-> o.op, method |-> o.method, path |-> o.path, headers |-> headers,
     by |-> by, sends |-> 1,
     status |-> IF response.received THEN response.status ELSE 0,
     body |-> IF response.received THEN response.body ELSE None,
     result |-> result]

\* create_request / cancel_request of an rfq::Client.
RfqCall(o, response) ==
    /\ http' = Exchange(o, RfqCredentials,
                        [state |-> "rfq", credentials |-> RfqCredentials], response,
                        IF o.via = "request"
                        THEN request(o.method, o.path, response)
                        ELSE request_text(o.method, o.path, response))
    /\ UNCHANGED <<sessionVars, cacheVars, rlVars, stream>>

\* A Client on which the methods of impl Client<Authenticated<K>> exist.
Authorized_in_any_state(h) == handles[h].st = "idle"

Authorized(h) == handles[h].st = "idle" /\ inner.state = "Authenticated"

\* Client::delete_notifications: the request gets the headers of
\* create_headers and is executed; the response is dropped.
DeleteNotifications(h, response) ==
    /\ Authorized(h)
    /\ LET o == [op |-> "delete_notifications", method |-> "DELETE",
                 path |-> "/notifications"]
       IN  http' = Exchange(o, inner.credentials,
                            [state |-> inner.state, credentials |-> inner.credentials],
                            response, execute_only(o.method, o.path, response))
    /\ UNCHANGED <<sessionVars, cacheVars, rlVars, stream>>

InitHttp == InitElevate

NextHttp ==
    \/ \E h \in Handles : AuthenticateWith(h, KeepAliveInputs)
    \/ \E h \in Handles : Deauthenticate(h)
    \/ \E o \in RfqOperations, response \in Responses : RfqCall(o, response)
    \/ \E h \in Handles, response \in Responses : DeleteNotifications(h, response)

SpecHttp == InitHttp /\ [][NextHttp]_vars

\* C26: whatever operation executed the latest request, it sent it once, and
\* when the response's status is not 2xx it returned the Status error with
\* that status, the request's method and path and the response's body.
C26_StatusSurfacedSentOnce ==
    http.op # None =>
        /\ http.sends = 1
        /\ (http.status # 0 /\ ~is_success(http.status)) =>
                http.result = StatusError(http.status, http.method, http.path, http.body)

----------------------------------------------------------------------------
(* Who produces authenticated requests: one Client with its keep-alive,     *)
(* signing orders and deleting notifications, demoted and elevated again.   *)

\* The answers of this specification's server.
IdentityAnswers == {"Err", "hb1"}
IdentityResponses == {r \in Responses : r.received /\ r.status \in {200, 400} /\ r.body = ""}

InitIdentity == InitKeepAlive

NextIdentity ==
    \/ \E h \in Handles : LookupsIdle /\ AuthenticateWith(h, KeepAliveInputs)
    \/ \E h \in Handles : LookupsIdle /\ Deauthenticate(h)
    \/ \E h \in Handles : Resume(h)
    \/ \E t \in Tasks : TaskTick(t)
    \/ \E t \in Tasks : TaskPosted(t, IdentityAnswers)
    \/ \E t \in Tasks : TaskSend(t)
    \/ \E t \in Tasks : TaskRelease(t)
    \/ \E h \in Handles, k \in TokenIds : SignNegRisk(h, 1, k)
    \/ \E v \in Values : FetchOk(1, v)
    \/ \E h \in Handles : Sign(h, 1)
    \/ \E h \in Handles, response \in IdentityResponses : DeleteNotifications(h, response)

SpecIdentity == InitIdentity /\ [][NextIdentity]_vars

\* C27: a request with the headers of create_headers was built by a session
\* in the Authenticated state from that session's credentials; a keep-alive
\* ping in flight was built by the Authenticated session it is sent for, from
\* its credentials; an order was signed by the Authenticated session with its
\* credentials as the owner; and while the session is Unauthenticated no ping
\* is in flight and the latest operation is not a sign.
C27_OnlyAuthenticatedProduces ==
    /\ http.op = "delete_notifications" =>
            /\ http.by.state = "Authenticated"
            /\ http.headers # None
            /\ http.headers = http.by.credentials
    /\ \A t \in Tasks :
            tasks[t].ping.sent =>
                /\ tasks[t].ping.state = "Authenticated"
                /\ tasks[t].ping.credentials # None
                /\ inner.state = "Authenticated"
                /\ tasks[t].ping.credentials = inner.credentials
    /\ last.op = "sign" =>
            /\ inner.state = "Authenticated"
            /\ last.credentials # None
            /\ last.credentials = inner.credentials
            /\ last.res = "Ok" => last.out.signed.owner = key(inner.credentials)
    /\ inner.state = "Unauthenticated" =>
            /\ \A t \in Tasks : tasks[t].pc # "posting"
            /\ inner.credentials = None

\* C27, its case: the session that sent an authenticated request and pinged
\* has been demoted, and its Client is Unauthenticated.
C27_DemotedAfterRequests ==
    /\ inner.state = "Unauthenticated"
    /\ last.op = "deauthenticate" /\ last.res = "Ok"
    /\ http.op = "delete_notifications"
    /\ \E t \in Tasks : tasks[t].pc = "done"
    /\ \E h \in Handles : handles[h].st = "idle"

----------------------------------------------------------------------------
(* The keep-alive loop of one Client against a server that answers: started *)
(* by authenticate and start_heartbeats, stopped by stop_heartbeats,        *)
(* deauthenticate and promote_to_builder.                                   *)

InitBeat == InitKeepAlive

NextBeat ==
    \/ \E h \in Handles : AuthenticateWith(h, KeepAliveInputs)
    \/ \E h \in Handles : Deauthenticate(h)
    \/ \E h \in Handles : PromoteToBuilder(h)
    \/ \E h \in Handles : Resume(h)
    \/ \E h \in Handles : StartHeartbeats(h)
    \/ \E h \in Handles : StopHeartbeats(h)
    \/ \E h \in Handles : ResumeStop(h)
    \/ \E t \in Tasks : TaskTick(t)
    \/ \E t \in Tasks : TaskPosted(t, HeartbeatAnswers)
    \/ \E t \in Tasks : TaskSend(t)
    \/ \E t \in Tasks : TaskRelease(t)

SpecBeat == InitBeat /\ [][NextBeat]_vars

\* C29: a ping is sent only on a tick after the ticker's first, that is one
\* interval or more after the start; it carries the heartbeat_id of the
\* latest successful ping, none before the first success; when a ping
\* returns the task is back at its select!, with its heartbeat_id unchanged
\* if the ping failed; and the loop is left only from the select! of a
\* cancelled token.
C29_PingCarriesLatestId ==
    /\ [](\A t \in Tasks :
            /\ tasks[t].ping.sent =>
                    /\ tasks[t].pc = "posting"
                    /\ tasks[t].ticks = 2
                    /\ tasks[t].ping.heartbeat_id = tasks[t].latest
            /\ Running(t) => tasks[t].heartbeat_id = tasks[t].latest)
    /\ [][\A t \in Tasks :
            /\ (tasks[t].pc = "posting" /\ tasks'[t].pc # "posting") =>
                    /\ tasks'[t].pc = "select"
                    /\ tasks'[t].latest = tasks[t].latest =>
                            tasks'[t].heartbeat_id = tasks[t].heartbeat_id
            /\ (Running(t) /\ ~Running(t)') =>
                    /\ tasks[t].pc = "select"
                    /\ tasks[t].cancelled
      ]_vars

\* C29, its case: a task whose token is not cancelled has the second
\* heartbeat_id it was given in the ping it is sending.
C29_PingWithSecondId ==
    \E t \in Tasks :
        /\ tasks[t].pc = "posting" /\ ~tasks[t].cancelled
        /\ tasks[t].ping.heartbeat_id = "hb2"

\* The latest operation is a stop_heartbeats, deauthenticate or
\* promote_to_builder that awaited a keep-alive task and returned Ok.
Stopped ==
    /\ last.op \in {"stop_heartbeats", "deauthenticate", "promote_to_builder"}
    /\ last.res = "Ok"
    /\ last.waited # 0

\* C30: in the step in which stop_heartbeats, deauthenticate or
\* promote_to_builder returns Ok, the keep-alive task it awaited has left its
\* loop and has no ping in flight; and a task that has left its loop never
\* sends a ping again (its slot may be given to a new task).
C30_NoPingAfterStop ==
    [][/\ (Stopped' /\ last' # last) =>
            /\ tasks[last'.waited].pc \in {"sent", "done"}
            /\ ~tasks[last'.waited].ping.sent
       /\ \A t \in Tasks :
            tasks[t].pc \in {"sent", "done"} =>
                \/ tasks'[t].pc \in {"sent", "done"} /\ ~tasks'[t].ping.sent
                \/ tasks'[t] = SpawnedTask
      ]_vars

\* C30, its case: stop_heartbeats returned Ok for a task that had pinged and
\* been answered; the task is past its tx.send(()).
C30_StoppedAfterPings ==
    /\ Stopped /\ last.op = "stop_heartbeats"
    /\ tasks[last.waited].pc = "sent"
    /\ tasks[last.waited].heartbeat_id = "hb1"

\* The task of token tok has been told to stop or has stopped.
Cancelled(tok) == tasks[tok].cancelled \/ ~Running(tok)

\* C36: dropping one Client of an authenticated session, or an order
\* builder made from it (which owns a clone of the Client), does not cancel
\* the keep-alive while another Client of the session is alive: the task
\* the dropped value's token belongs to is not cancelled by the drop.
C36_DropKeepsKeepAlive ==
    [][\A h \in Handles :
        (/\ handles[h].st = "idle" /\ handles[h].tok # 0
         /\ last'.op = "drop" /\ ~Live(h)'
         /\ OtherUsers(h)
         /\ ~Cancelled(handles[h].tok))
            => ~tasks'[handles[h].tok].cancelled
      ]_vars

\* C37: across all Clients of one authenticated session at most one
\* keep-alive task is in its loop and not told to stop, after any sequence
\* of clone, start_heartbeats, stop_heartbeats and drop.
C37_OneTaskPerSession ==
    Cardinality({t \in Tasks : Running(t) /\ ~tasks[t].cancelled}) <= 1

\* C38: once invalidate_internal_caches has returned the caches hold no
\* value fetched before it: a lookup whose request was in flight when the
\* invalidation cleared its map does not insert its result afterwards.
C38_NoInsertAfterInvalidation ==
    [][\A c \in Callers :
        (/\ lookups[c].pc = "fetch" /\ lookups[c].cleared
         /\ \A d \in Callers : Uncleared(lookups[d].pc) = {}
         /\ lookups'[c].pc = "done")
            => /\ ~lookups'[c].inserted
               /\ caches' = caches
      ]_vars

----------------------------------------------------------------------------
(* Order builders: limit_order / market_order return an OrderBuilder that   *)
(* owns a Client made of Arc::clone(&self.inner) and a clone of the token.  *)
(* Nothing is called on that Client from outside; the builder is dropped.   *)

\* Client::order_builder: the builder's Client takes a handle of its own.
OrderBuilder(h, g) ==
    /\ handles[h].st = "idle"
    /\ inner.state = "Authenticated"
    /\ FirstFreeHandle(g)
    /\ handles' = [handles EXCEPT ![g] = [st |-> "builder", tok |-> handles[h].tok,
                                          wait |-> 0]]
    /\ last' = Report("order_builder", "Ok", TRUE, 0, FALSE)
    /\ UNCHANGED <<heartbeats, inner, tasks>>
    /\ UNCHANGED <<cacheVars, rlVars, httpVars>>

\* The builder is dropped (after build, or unused), and its Client with it.
DropBuilder(g) ==
    /\ handles[g].st = "builder"
    /\ handles' = [handles EXCEPT ![g] = FreeHandle]
    /\ tasks' = CancelOnDrop(handles[g].tok)
    /\ last' = Report("drop", "Ok", OtherUsers(g), 0, FALSE)
    /\ UNCHANGED <<heartbeats, inner>>
    /\ UNCHANGED <<cacheVars, rlVars, httpVars>>

NextBuilder ==
    \/ \E h \in Handles : NewDefault(h)
    \/ \E h \in Handles : AuthenticateWith(h, KeepAliveInputs)
    \/ \E h, g \in Handles : OrderBuilder(h, g)
    \/ \E g \in Handles : DropBuilder(g)
    \/ \E h, g \in Handles : Clone(h, g)
    \/ \E h \in Handles : Drop(h)
    \/ \E h \in Handles : Deauthenticate(h)
    \/ \E h \in Handles : PromoteToBuilder(h)
    \/ \E h \in Handles : Resume(h)
    \/ \E t \in Tasks : TaskTick(t)
    \/ \E t \in Tasks : TaskPosted(t, KeepAliveAnswers)
    \/ \E t \in Tasks : TaskSend(t)
    \/ \E t \in Tasks : TaskRelease(t)

SpecBuilder == InitKeepAlive /\ [][NextBuilder]_vars

\* An order builder of the session is alive.
BuilderAlive == \E g \in Handles : handles[g].st = "builder"

\* A step in which deauthenticate or promote_to_builder returns.
TransitionEnds ==
    /\ last'.op \in {"deauthenticate", "promote_to_builder"}
    /\ handles' # handles \/ inner' # inner
    /\ \A h \in Handles :
            handles'[h].st \in {"deauthenticate", "promote_to_builder"}
                => handles'[h] = handles[h]

\* C39: an order builder made from an authenticated Client is a holder of
\* the shared state: a deauthenticate or promote_to_builder that ends while
\* a builder is alive fails with Synchronization, and one that ends when
\* every builder and every other clone has been dropped does not.
C39_BuilderIsHolder ==
    [][TransitionEnds =>
            /\ BuilderAlive => last'.res = "Synchronization"
            /\ Cardinality({g \in Handles : Live(g)}) = 1
                    => last'.res # "Synchronization"
      ]_vars

----------------------------------------------------------------------------
(* Every way of stopping the keep-alive, next to clones and drops (an      *)
(* order builder holds and drops a clone), with the scheduling the runtime gives: a ping in flight is        *)
(* answered, a cancelled task at its select! is polled and takes the        *)
(* cancellation branch, and a caller whose Receiver has resolved resumes.   *)

NextStop ==
    \/ \E h \in Handles : AuthenticateWith(h, KeepAliveInputs)
    \/ \E h, g \in Handles : Clone(h, g)
    \/ \E h \in Handles : Drop(h)
    \/ \E h \in Handles : StopHeartbeats(h)
    \/ \E h \in Handles : ResumeStop(h)
    \/ \E h \in Handles : Deauthenticate(h)
    \/ \E h \in Handles : PromoteToBuilder(h)
    \/ \E h \in Handles : Resume(h)
    \/ \E t \in Tasks : TaskTick(t)
    \/ \E t \in Tasks : TaskPosted(t, KeepAliveAnswers)
    \/ \E t \in Tasks : TaskSend(t)
    \/ \E t \in Tasks : TaskRelease(t)

FairStop ==
    /\ \A t \in Tasks :
            /\ WF_tasks(TaskPosted(t, KeepAliveAnswers))
            /\ SF_tasks(TaskSend(t))
    /\ \A h \in Handles : WF_handles(Resume(h)) /\ WF_handles(ResumeStop(h))

SpecStop == InitKeepAlive /\ [][NextStop]_vars /\ FairStop

\* The Client is inside cancel_and_wait, awaiting the Receiver.
Awaiting(h) ==
    handles[h].st \in {"stop_heartbeats", "deauthenticate", "promote_to_builder"}

\* C40: stopping the keep-alive always terminates. Every stop_heartbeats,
\* deauthenticate or promote_to_builder that awaits the acknowledgment
\* eventually returns, also when the task had been cancelled by the drop
\* of another clone or had already ended; the calls that do not await
\* return at once with Ok or Synchronization.
C40_StopTerminates ==
    \A h \in Handles : Awaiting(h) ~> ~Awaiting(h)

\* A stop_heartbeats is awaiting a task that the drop of another Client
\* had cancelled and that has ended.
C40_AwaitingEndedTask ==
    \E h \in Handles :
        /\ handles[h].st = "stop_heartbeats"
        /\ last.op = "drop"
        /\ tasks[handles[h].wait].pc = "done"

====
